---- MODULE Spec2Model ----
(***************************************************************************)
(* Latam Auto-Filler (AUTOCEPNR_Project): the workflow of                  *)
(* FormFiller.process_complete_workflow, the form collaborator LatamForm,  *)
(* the screen object SabreScreen, the checks of RulesEngine and the        *)
(* application shell LatamAutoFiller (UI thread and worker threads).       *)
(*                                                                         *)
(* Python strings that the code inspects character by character are        *)
(* sequences of one-character strings.  Optional[X] is a sequence of at    *)
(* most one X: <<>> is None.  A dict is a function whose DOMAIN is its key *)
(* set.  The words of a message are a sequence of tokens (str.split()), a  *)
(* formatted value inside a message being the token "<v>".                 *)
(***************************************************************************)
EXTENDS Integers, Sequences, FiniteSets, TLC

(* ------------------------------ bounds --------------------------------- *)
\* number of itinerary lines a recognized text may hold
MaxFlights == 1
\* number of consecutive workflow runs on the same FormFiller
MaxRuns == 2
\* number of remote-form interactions that may fail or time out in one run
MaxRemoteFailures == 1
\* number of worker threads the UI may launch
MaxThreads == 2
\* length of the result list handed to retry_failed_fields
MaxRetryLen == 3
\* number of characters of the recognized text that follow the label 'Nomes'
MaxAfterLabel == 4
\* length of the strings handed to validate_pnr_format
MaxPnrLen == 7
\* length of the short names handed to validate_name_correction
MaxNameLen == 3

(* ------------------------------ strings -------------------------------- *)
None == << >>
Some(x) == << x >>

LowerLetters == <<"a","b","c","d","e","f","g","h","i","j","k","l","m",
                  "n","o","p","q","r","s","t","u","v","w","x","y","z">>
UpperLetters == <<"A","B","C","D","E","F","G","H","I","J","K","L","M",
                  "N","O","P","Q","R","S","T","U","V","W","X","Y","Z">>
DigitChars == {"0","1","2","3","4","5","6","7","8","9"}
UpperSet == {UpperLetters[i] : i \in 1..26}

\* str.upper() on one character
UpperChar(c) ==
    IF \E i \in 1..26 : LowerLetters[i] = c
    THEN UpperLetters[CHOOSE i \in 1..26 : LowerLetters[i] = c]
    ELSE c

\* str.upper()
Upper(s) == [i \in 1..Len(s) |-> UpperChar(s[i])]

\* str.isdigit(): non-empty and every character a digit
IsDigit(s) == Len(s) > 0 /\ \A i \in 1..Len(s) : s[i] \in DigitChars

\* str.replace(a, b) for one-character a and b
ReplaceChar(s, a, b) == [i \in 1..Len(s) |-> IF s[i] = a THEN b ELSE s[i]]

\* re.sub(r'[^\d]', '', s): the digits of s, in order
RECURSIVE DigitsOnly(_)
DigitsOnly(s) ==
    IF s = << >> THEN << >>
    ELSE IF Head(s) \in DigitChars THEN << Head(s) >> \o DigitsOnly(Tail(s))
    ELSE DigitsOnly(Tail(s))

\* the characters \s matches among those of the model
Whitespace == {" ", "\n"}

\* str.strip()
Strip(s) ==
    LET kept == {i \in 1..Len(s) : s[i] \notin Whitespace}
    IN  IF kept = {} THEN << >>
        ELSE SubSeq(s, CHOOSE i \in kept : \A j \in kept : i <= j,
                       CHOOSE i \in kept : \A j \in kept : i >= j)

\* s[:n]
Prefix(s, n) == SubSeq(s, 1, IF Len(s) < n THEN Len(s) ELSE n)

(* --------------------------- RulesEngine ------------------------------- *)
\* ValidationResult(is_valid, error_message=None, suggested_action=None)
ValidationResult(valid, msg, action) ==
    [is_valid |-> valid, error_message |-> msg, suggested_action |-> action]

Valid == ValidationResult(TRUE, None, None)

\* a check that normalizes the code to uppercase before the pattern
validate_pnr_format_any_case(pnr) ==
    IF Len(pnr) = 6 /\ \A i \in 1..6 : UpperChar(pnr[i]) \in UpperSet \cup DigitChars
    THEN ValidationResult(TRUE, None, None)
    ELSE ValidationResult(FALSE, Some(<<"PNR", "invalido:", "<v>">>),
             Some("Verificar formato do PNR (6 caracteres alfanumericos)"))

\* validate_pnr_format: 6 characters, all of them in [A-Z0-9]
validate_pnr_format(pnr) ==
    IF Len(pnr) # 6
    THEN ValidationResult(FALSE, Some(<<"PNR", "invalido:", "<v>">>),
             Some("Verificar formato do PNR (6 caracteres alfanumericos)"))
    ELSE IF ~(\A i \in 1..6 : pnr[i] \in UpperSet \cup DigitChars)
    THEN ValidationResult(FALSE,
             Some(<<"PNR", "contem", "caracteres", "invalidos:", "<v>">>),
             Some("PNR deve conter apenas letras maiusculas e numeros"))
    ELSE Valid

valid_statuses == { <<"H","K">>, <<"S","A">> }

\* validate_flight_status: status.upper() in ['HK', 'SA']
validate_flight_status(status) ==
    IF Upper(status) \notin valid_statuses
    THEN ValidationResult(FALSE,
             Some(<<"Status", "de", "voo", "<v>", "nao", "permite",
                    "estouro", "de", "classe">>),
             Some("Apenas status HK ou SA sao permitidos"))
    ELSE Valid

valid_carriers == { <<"L","A">>, <<"L","P">>, <<"4","C">>, <<"J","J">> }

\* validate_carrier_code: carrier.upper() in ['LA', 'LP', '4C', 'JJ']
validate_carrier_code(carrier) ==
    IF Upper(carrier) \notin valid_carriers
    THEN ValidationResult(FALSE,
             Some(<<"Carrier", "<v>", "nao", "mapeado">>),
             Some("Carrier deve ser um dos: LA, LP, 4C, JJ"))
    ELSE Valid

eligible_classes == { <<"Q">>, <<"S">>, <<"Y">> }

valid_codes == { <<"P","I","C","_","S","2","3">>,
                 <<"P","I","C","_","S","2","4">>,
                 <<"P","I","C","_","S","2","5">> }

\* _validate_pic_authorization
validate_pic_authorization(auth_code) == auth_code \in valid_codes

\* a check that looks at the authorization before the class
validate_estouro_classe_auth_first(classe, auth_code) ==
    IF ~validate_pic_authorization(Upper(auth_code))
    THEN ValidationResult(FALSE,
             Some(<<"Codigo", "de", "autorizacao", "<v>", "nao", "permite",
                    "estouro", "de", "classe">>),
             Some("Verificar autorizacao PIC no Sabre"))
    ELSE IF Upper(classe) \notin eligible_classes
    THEN ValidationResult(FALSE,
             Some(<<"Classe", "<v>", "nao", "e", "elegivel", "para",
                    "estouro", "de", "classe">>),
             Some("Verificar classe original da reserva"))
    ELSE ValidationResult(TRUE, None, None)

\* validate_estouro_classe on the dict {'classe': classe, 'auth_code': auth}
validate_estouro_classe(classe, auth_code) ==
    IF Upper(classe) \notin eligible_classes
    THEN ValidationResult(FALSE,
             Some(<<"Classe", "<v>", "nao", "e", "elegivel", "para",
                    "estouro", "de", "classe">>),
             Some("Verificar classe original da reserva"))
    ELSE IF ~validate_pic_authorization(Upper(auth_code))
    THEN ValidationResult(FALSE,
             Some(<<"Codigo", "de", "autorizacao", "<v>", "nao", "permite",
                    "estouro", "de", "classe">>),
             Some("Verificar autorizacao PIC no Sabre"))
    ELSE Valid

\* datetime.now().year, as the four characters the f-string prints
CurrentYear == <<"2","0","2","6">>

month_map ==
    [m \in { <<"J","A","N">>, <<"F","E","V">>, <<"M","A","R">>, <<"A","B","R">>,
             <<"M","A","I">>, <<"J","U","N">>, <<"J","U","L">>, <<"A","G","O">>,
             <<"S","E","T">>, <<"O","U","T">>, <<"N","O","V">>, <<"D","E","Z">> }
     |-> CASE m = <<"J","A","N">> -> <<"0","1">>
           [] m = <<"F","E","V">> -> <<"0","2">>
           [] m = <<"M","A","R">> -> <<"0","3">>
           [] m = <<"A","B","R">> -> <<"0","4">>
           [] m = <<"M","A","I">> -> <<"0","5">>
           [] m = <<"J","U","N">> -> <<"0","6">>
           [] m = <<"J","U","L">> -> <<"0","7">>
           [] m = <<"A","G","O">> -> <<"0","8">>
           [] m = <<"S","E","T">> -> <<"0","9">>
           [] m = <<"O","U","T">> -> <<"1","0">>
           [] m = <<"N","O","V">> -> <<"1","1">>
           [] m = <<"D","E","Z">> -> <<"1","2">>]

\* a conversion that looks the month up as it is written
validate_date_format_case_sensitive(date_str) ==
    IF Len(date_str) # 5 \/ ~IsDigit(SubSeq(date_str, 1, 2))
    THEN [is_valid |-> FALSE, text |-> <<"Formato", "de", "data", "invalido">>]
    ELSE IF SubSeq(date_str, 3, 5) \notin DOMAIN month_map
    THEN [is_valid |-> FALSE, text |-> <<"Mes", "invalido:", "<v>">>]
    ELSE [is_valid |-> TRUE,
          text |-> SubSeq(date_str, 1, 2) \o <<"/">>
                   \o month_map[SubSeq(date_str, 3, 5)]
                   \o <<"/">> \o CurrentYear]

\* validate_date_format: (is_valid, formatted date or the words of the error)
validate_date_format(date_str) ==
    IF Len(date_str) # 5 \/ ~IsDigit(SubSeq(date_str, 1, 2))
    THEN [is_valid |-> FALSE, text |-> <<"Formato", "de", "data", "invalido">>]
    ELSE IF Upper(SubSeq(date_str, 3, 5)) \notin DOMAIN month_map
    THEN [is_valid |-> FALSE, text |-> <<"Mes", "invalido:", "<v>">>]
    ELSE [is_valid |-> TRUE,
          text |-> SubSeq(date_str, 1, 2) \o <<"/">>
                   \o month_map[Upper(SubSeq(date_str, 3, 5))]
                   \o <<"/">> \o CurrentYear]

(* ------------------ RulesEngine: name corrections ---------------------- *)
\* rules_engine.py holds both sides of an unresolved merge; a build keeps one
\* of them.  The sides differ in _is_orthographic_correction,
\* _is_inverted_names and _is_addition_correction
Sides == {"HEAD", "7a10112"}

\* sub in s
Contains(s, sub) ==
    \E i \in 1..(Len(s) - Len(sub) + 1) : SubSeq(s, i, i + Len(sub) - 1) = sub

\* str.replace(sub, ''): the occurrences of sub are removed from left to
\* right, without overlap
RECURSIVE RemoveAll(_, _)
RemoveAll(s, sub) ==
    IF Len(s) < Len(sub) THEN s
    ELSE IF SubSeq(s, 1, Len(sub)) = sub
    THEN RemoveAll(SubSeq(s, Len(sub) + 1, Len(s)), sub)
    ELSE <<s[1]>> \o RemoveAll(Tail(s), sub)

\* str.split(): the runs of characters between whitespace
RECURSIVE SplitWords(_)
SplitWords(s) ==
    IF s = << >> THEN << >>
    ELSE IF s[1] \in Whitespace THEN SplitWords(Tail(s))
    ELSE LET n == CHOOSE k \in 1..Len(s) :
                      /\ \A i \in 1..k : s[i] \notin Whitespace
                      /\ k < Len(s) => s[k + 1] \in Whitespace
         IN  <<SubSeq(s, 1, n)>> \o SplitWords(SubSeq(s, n + 1, Len(s)))

\* str.split(sep) for a one-character sep: empty parts are kept
RECURSIVE SplitOn(_, _)
SplitOn(s, sep) ==
    IF \A i \in 1..Len(s) : s[i] # sep THEN <<s>>
    ELSE LET n == CHOOSE k \in 1..Len(s) :
                      s[k] = sep /\ \A i \in 1..(k - 1) : s[i] # sep
         IN  <<SubSeq(s, 1, n - 1)>> \o SplitOn(SubSeq(s, n + 1, Len(s)), sep)

\* ' '.join(words)
RECURSIVE JoinWords(_)
JoinWords(words) ==
    IF words = << >> THEN << >>
    ELSE IF Len(words) = 1 THEN words[1]
    ELSE words[1] \o <<" ">> \o JoinWords(Tail(words))

\* parts[::-1]
Reverse(parts) == [i \in 1..Len(parts) |-> parts[Len(parts) + 1 - i]]

\* list(dict.fromkeys(parts)): the first occurrence of every part, in order
Dedup(parts) ==
    LET F[i \in 0..Len(parts)] ==
            IF i = 0 THEN << >>
            ELSE IF \E j \in 1..(i - 1) : parts[j] = parts[i] THEN F[i - 1]
            ELSE Append(F[i - 1], parts[i])
    IN  F[Len(parts)]

\* set(parts)
Parts(parts) == {parts[i] : i \in 1..Len(parts)}

titles == << <<"M","S">>, <<"M","R">>, <<"M","S","T","R">>, <<"J","R">>,
             <<"N","E","T","O">>, <<"F","I","L","H","O">> >>

\* _normalize_name: uppercase, every title removed wherever it occurs, in
\* the order of the list, then the whitespace collapsed
normalize_name(name) ==
    LET F[i \in 0..Len(titles)] ==
            IF i = 0 THEN Upper(name) ELSE RemoveAll(F[i - 1], titles[i])
    IN  JoinWords(SplitWords(F[Len(titles)]))


\* the length of the longest common run of a from i and b from j
MatchLen(a, b, i, j) ==
    CHOOSE k \in 0..Len(a) :
        /\ i + k - 1 <= Len(a) /\ j + k - 1 <= Len(b)
        /\ \A d \in 0..(k - 1) : a[i + d] = b[j + d]
        /\ \/ i + k > Len(a) \/ j + k > Len(b)
           \/ a[i + k] # b[j + k]

\* the sum of the sizes of SequenceMatcher(None, a, b).get_matching_blocks():
\* the longest common block, the one that starts earliest in a and then
\* earliest in b, and the same to the left and to the right of it
RECURSIVE Matches(_, _)
Matches(a, b) ==
    IF a = << >> \/ b = << >> THEN 0
    ELSE LET len == [p \in (1..Len(a)) \X (1..Len(b)) |->
                        MatchLen(a, b, p[1], p[2])]
             best == CHOOSE p \in DOMAIN len :
                        \A q \in DOMAIN len :
                            \/ len[q] < len[p]
                            \/ len[q] = len[p] /\ q[1] > p[1]
                            \/ len[q] = len[p] /\ q[1] = p[1] /\ q[2] >= p[2]
             k == len[best]
         IN  IF k = 0 THEN 0
             ELSE k + Matches(SubSeq(a, 1, best[1] - 1),
                              SubSeq(b, 1, best[2] - 1))
                    + Matches(SubSeq(a, best[1] + k, Len(a)),
                              SubSeq(b, best[2] + k, Len(b)))

\* str.ljust(n)
LJust(s, n) == [i \in 1..(IF Len(s) > n THEN Len(s) ELSE n) |->
                  IF i <= Len(s) THEN s[i] ELSE " "]

\* _is_orthographic_correction.  HEAD: SequenceMatcher ratio 2.0 * M / T
\* above 0.70 (1.0 when both names are empty); 7a10112: at most 3 positions
\* differ once the shorter name is padded with spaces
is_orthographic_correction(side, old_name, new_name) ==
    IF side = "HEAD"
    THEN IF Len(old_name) + Len(new_name) = 0 THEN TRUE
         ELSE 20 * Matches(old_name, new_name)
                  > 7 * (Len(old_name) + Len(new_name))
    ELSE LET max_len == IF Len(old_name) > Len(new_name)
                        THEN Len(old_name) ELSE Len(new_name)
             old_padded == LJust(old_name, max_len)
             new_padded == LJust(new_name, max_len)
         IN  Cardinality({i \in 1..max_len : old_padded[i] # new_padded[i]}) <= 3

\* _is_inverted_names.  HEAD: for the separators ' ' and '/', the parts of
\* one name are the parts of the other in reverse order; 7a10112: the same
\* on the words of split()
is_inverted_names(side, old_name, new_name) ==
    IF side = "HEAD"
    THEN \E separator \in {" ", "/"} :
            /\ Contains(old_name, <<separator>>) \/ Contains(new_name, <<separator>>)
            /\ Len(SplitOn(old_name, separator)) = Len(SplitOn(new_name, separator))
            /\ Len(SplitOn(old_name, separator)) > 1
            /\ SplitOn(old_name, separator) = Reverse(SplitOn(new_name, separator))
    ELSE /\ Len(SplitWords(old_name)) = Len(SplitWords(new_name))
         /\ SplitWords(old_name) = Reverse(SplitWords(new_name))

\* _is_addition_correction.  HEAD splits on spaces and slashes, 7a10112 on
\* whitespace only
is_addition_correction(side, old_name, new_name) ==
    LET old_parts == IF side = "HEAD"
                     THEN Parts(SplitWords(ReplaceChar(old_name, "/", " ")))
                     ELSE Parts(SplitWords(old_name))
        new_parts == IF side = "HEAD"
                     THEN Parts(SplitWords(ReplaceChar(new_name, "/", " ")))
                     ELSE Parts(SplitWords(new_name))
    IN  old_parts \subseteq new_parts
        /\ Cardinality(new_parts) > Cardinality(old_parts)

\* _is_duplication_correction
is_duplication_correction(old_name, new_name) ==
    SplitWords(new_name) = Dedup(SplitWords(old_name))

agnames == { <<"J","R">>, <<"N","E","T","O">>, <<"F","I","L","H","O">>,
             <<"S","R">> }

\* _is_agname_correction: the two any(...) assignments of either side of
\* the merge are followed by the return statement after the closing marker,
\* which both sides share; `in` is substring containment
is_agname_correction(old_name, new_name) ==
    LET old_has_agname == \E a \in agnames : Contains(Upper(old_name), a)
        new_has_agname == \E a \in agnames : Contains(Upper(new_name), a)
    IN  old_has_agname # new_has_agname

DocumentationRequired ==
    ValidationResult(FALSE,
        Some(<<"Correcao", "de", "nome", "requer", "documentacao",
               "comprobatoria">>),
        Some("Anexar documentacao para mudanca legal (casamento, divorcio, etc.)"))

\* the first step of validate_name_correction that accepts the normalized
\* pair, "none" when no step does
matched_step(side, old_clean, new_clean) ==
    IF old_clean = new_clean THEN "equal"
    ELSE IF is_orthographic_correction(side, old_clean, new_clean)
    THEN "orthographic"
    ELSE IF is_inverted_names(side, old_clean, new_clean) THEN "inversion"
    ELSE IF is_addition_correction(side, old_clean, new_clean) THEN "addition"
    ELSE IF is_duplication_correction(old_clean, new_clean) THEN "duplication"
    ELSE IF is_agname_correction(old_clean, new_clean) THEN "agname"
    ELSE "none"

\* a classifier that leaves out the duplicate-removal step
validate_name_correction_no_duplication(side, old_name, new_name) ==
    IF matched_step(side, normalize_name(old_name), normalize_name(new_name))
           \in {"none", "duplication"}
    THEN DocumentationRequired
    ELSE ValidationResult(TRUE, None, None)

\* validate_name_correction
validate_name_correction(side, old_name, new_name) ==
    IF matched_step(side, normalize_name(old_name), normalize_name(new_name))
           # "none"
    THEN Valid
    ELSE DocumentationRequired


(* ------------------------- recognized text ----------------------------- *)
\* A recognized text is described by what the patterns of SabreScreen find
\* in it: blank (the text is ""), indicators (how many of the 8
\* sabre_indicators match, case-insensitively), pnr / name / tkt / auth (the
\* group 1 of the first match of the corresponding re.search, None when
\* there is none) and flights (the list re.findall returns for the itinerary
\* pattern).
\* the values the patterns find in the recognized texts of the model
Sample ==
    [PNR_ABC123 |-> <<"A","B","C","1","2","3">>,
     NAME_SILVA |-> <<"S","I","L","V","A">>,
     CARRIER_LA |-> <<"L","A">>,
     CARRIER_XX |-> <<"X","X">>,
     FLIGHT_6375 |-> <<"6","3","7","5">>,
     CLASSE_Y |-> <<"Y">>,
     CLASSE_F |-> <<"F">>,
     TRECHO_GRU_SCL |-> <<"G","R","U","-","S","C","L">>,
     DATE_13MAR |-> <<"1","3","M","A","R">>,
     DATE_13FOO |-> <<"1","3","F","O","O">>,
     STATUS_HK |-> <<"H","K">>,
     STATUS_XX |-> <<"X","X">>,
     AUTH_PIC_S23 |-> <<"P","I","C","_","S","2","3">>,
     AUTH_BAD |-> <<"B","A","D">>,
     TKT_NUMBER |-> <<"9","5","7","-","1","2","3","4","5","6","7","8","9","0">>]

\* the six groups of one match of the itinerary pattern
Itinerary(carrier, classe, data_voo, status) ==
    [carrier |-> carrier, flight_num |-> Sample.FLIGHT_6375, classe |-> classe,
     trecho |-> Sample.TRECHO_GRU_SCL, data_voo |-> data_voo, status |-> status]

\* an eligible line, lines with one ineligible or malformed group, and a
\* line with all of them
Itineraries ==
    { Itinerary(Sample.CARRIER_LA, Sample.CLASSE_Y, Sample.DATE_13MAR, Sample.STATUS_HK),
      Itinerary(Sample.CARRIER_XX, Sample.CLASSE_Y, Sample.DATE_13MAR, Sample.STATUS_HK),
      Itinerary(Sample.CARRIER_LA, Sample.CLASSE_F, Sample.DATE_13MAR, Sample.STATUS_HK),
      Itinerary(Sample.CARRIER_LA, Sample.CLASSE_Y, Sample.DATE_13FOO, Sample.STATUS_HK),
      Itinerary(Sample.CARRIER_LA, Sample.CLASSE_Y, Sample.DATE_13MAR, Sample.STATUS_XX),
      Itinerary(Sample.CARRIER_XX, Sample.CLASSE_F, Sample.DATE_13FOO, Sample.STATUS_XX) }

\* the lines that follow the first one
LaterItineraries ==
    { Itinerary(Sample.CARRIER_LA, Sample.CLASSE_Y, Sample.DATE_13MAR, Sample.STATUS_HK),
      Itinerary(Sample.CARRIER_XX, Sample.CLASSE_F, Sample.DATE_13FOO, Sample.STATUS_XX) }

FlightLists ==
    UNION { { l \in [1..n -> Itineraries] :
                \A i \in 2..n : l[i] \in LaterItineraries } : n \in 0..MaxFlights }

\* the indicator counts on both sides of the detection threshold
IndicatorCounts == {4, 5}

BlankText ==
    [blank |-> TRUE, indicators |-> 0, pnr |-> None, name |-> None,
     flights |-> << >>, tkt |-> None, auth |-> None]

\* 'Reserva - ABC123' also matches the first indicator and 'Nomes\n...' the
\* second one, so a text with those matches has at least that many indicators
Texts ==
    {BlankText} \cup
    { t \in [blank : {FALSE}, indicators : IndicatorCounts,
             pnr : {None, Some(Sample.PNR_ABC123)}, name : {None, Some(Sample.NAME_SILVA)},
             flights : FlightLists, tkt : {None},
             auth : {None, Some(Sample.AUTH_PIC_S23), Some(Sample.AUTH_BAD)}] :
        t.indicators >= Len(t.pnr) + Len(t.name) }

(* ---------------------------- SabreScreen ------------------------------ *)
EmptyDict == [k \in {} |-> << >>]

\* dict.update
Update(d, e) ==
    [k \in DOMAIN d \cup DOMAIN e |-> IF k \in DOMAIN e THEN e[k] ELSE d[k]]

\* SabreField(name, value, confidence, position); confidence in percent, the
\* position is the constant (0, 0, 0, 0)
SabreField(name, value, confidence) ==
    [name |-> name, value |-> value, confidence |-> confidence]

\* The screen of SabreScreen.__init__
NewSabreScreen ==
    [raw_image |-> FALSE, extracted_text |-> BlankText,
     extracted_fields |-> EmptyDict, is_valid_screen |-> FALSE]

\* detect_sabre_pattern: False without an image, otherwise at least 5 of the
\* 8 indicators found in the text
detect_sabre_pattern(screen) ==
    IF ~screen.raw_image THEN FALSE ELSE screen.extracted_text.indicators >= 5

\* a parser that takes the itinerary fields from the last line found
ParsedFields_last_line(text) ==
    LET pnr == IF text.pnr # None
               THEN [k \in {"pnr"} |-> SabreField("pnr", Upper(text.pnr[1]), 95)]
               ELSE EmptyDict
        name == IF text.name # None
                THEN [k \in {"passenger_name"} |->
                         SabreField("passenger_name", Strip(text.name[1]), 90)]
                ELSE EmptyDict
        first == text.flights[Len(text.flights)]
        flight == IF text.flights # << >>
                  THEN [k \in {"carrier", "flight_num", "classe", "trecho",
                               "data_voo", "status"} |->
                           SabreField(k, first[k], 95)]
                  ELSE EmptyDict
        tkt == IF text.tkt # None
               THEN [k \in {"ticket_number"} |->
                        SabreField("ticket_number", text.tkt[1], 90)]
               ELSE EmptyDict
        auth == IF text.auth # None
                THEN [k \in {"auth_code"} |->
                         SabreField("auth_code", text.auth[1], 85)]
                ELSE EmptyDict
    IN  Update(Update(Update(Update(pnr, name), flight), tkt), auth)

\* The dict parse_fields builds from the text
ParsedFields(text) ==
    LET pnr == IF text.pnr # None
               THEN [k \in {"pnr"} |-> SabreField("pnr", Upper(text.pnr[1]), 95)]
               ELSE EmptyDict
        name == IF text.name # None
                THEN [k \in {"passenger_name"} |->
                         SabreField("passenger_name", Strip(text.name[1]), 90)]
                ELSE EmptyDict
        first == text.flights[1]
        flight == IF text.flights # << >>
                  THEN [k \in {"carrier", "flight_num", "classe", "trecho",
                               "data_voo", "status"} |->
                           SabreField(k, first[k], 95)]
                  ELSE EmptyDict
        tkt == IF text.tkt # None
               THEN [k \in {"ticket_number"} |->
                        SabreField("ticket_number", text.tkt[1], 90)]
               ELSE EmptyDict
        auth == IF text.auth # None
                THEN [k \in {"auth_code"} |->
                         SabreField("auth_code", text.auth[1], 85)]
                ELSE EmptyDict
    IN  Update(Update(Update(Update(pnr, name), flight), tkt), auth)

\* parse_fields: the returned dict and the screen afterwards; an invalid
\* screen returns {} and leaves extracted_fields as it was
parse_fields(screen) ==
    IF ~screen.is_valid_screen
    THEN [fields |-> EmptyDict, screen |-> screen]
    ELSE [fields |-> ParsedFields(screen.extracted_text),
          screen |-> [screen EXCEPT
                        !.extracted_fields = ParsedFields(screen.extracted_text)]]

\* validate_integrity: one result per check whose fields were extracted
validate_integrity(fields) ==
    (IF "pnr" \in DOMAIN fields
     THEN << validate_pnr_format(fields["pnr"].value) >> ELSE << >>)
    \o (IF "status" \in DOMAIN fields
        THEN << validate_flight_status(fields["status"].value) >> ELSE << >>)
    \o (IF "carrier" \in DOMAIN fields
        THEN << validate_carrier_code(fields["carrier"].value) >> ELSE << >>)
    \o (IF "classe" \in DOMAIN fields /\ "auth_code" \in DOMAIN fields
        THEN << validate_estouro_classe(fields["classe"].value,
                                        fields["auth_code"].value) >>
        ELSE << >>)

(* ----------------------------- LatamForm ------------------------------- *)
\* the keys of field_mappings, in insertion order
FieldOrder == <<"pnr", "cidade", "pais", "departamento", "razao",
                "autorizador", "num_segmento", "carrier", "vuelo", "classe",
                "data_voo", "segmento", "pax", "cto_des">>

FieldNames == {FieldOrder[i] : i \in 1..Len(FieldOrder)}

\* field_mappings: kind is "select" for a 'type': 'select' entry or a label
\* selector, "read_only" for a read-only entry, "input" otherwise; transform
\* names the entry's transform ("none" when it has none)
field_mappings ==
    [f \in FieldNames |->
        CASE f = "pnr" -> [kind |-> "input", transform |-> "upper"]
          [] f = "cidade" -> [kind |-> "input", transform |-> "identity"]
          [] f = "pais" -> [kind |-> "read_only", transform |-> "none"]
          [] f \in {"departamento", "razao", "autorizador", "carrier",
                    "classe", "pax"} -> [kind |-> "select", transform |-> "none"]
          [] f = "num_segmento" -> [kind |-> "input", transform |-> "str"]
          [] f = "vuelo" -> [kind |-> "input", transform |-> "digits4"]
          [] f = "data_voo" -> [kind |-> "input", transform |-> "date"]
          [] f = "segmento" -> [kind |-> "input", transform |-> "slash"]
          [] f = "cto_des" -> [kind |-> "input", transform |-> "identity"]]

\* _format_date_brazilian
format_date_brazilian(date_str) ==
    IF validate_date_format(date_str).is_valid
    THEN validate_date_format(date_str).text
    ELSE date_str

\* field_config['transform'](value): the value, or raised when the call
\* raises.  The 'vuelo' lambda uses re, which latam_form.py does not import:
\* calling it raises NameError
ApplyTransform(transform, value) ==
    CASE transform = "none" -> [raised |-> FALSE, value |-> value]
      [] transform = "identity" -> [raised |-> FALSE, value |-> value]
      [] transform = "str" -> [raised |-> FALSE, value |-> value]
      [] transform = "upper" -> [raised |-> FALSE, value |-> Upper(value)]
      [] transform = "slash" ->
            [raised |-> FALSE, value |-> ReplaceChar(value, "-", "/")]
      [] transform = "date" ->
            [raised |-> FALSE, value |-> format_date_brazilian(value)]
      [] transform = "digits4" -> [raised |-> TRUE, value |-> value]

\* "Erro ao preencher campo {field_name}: {e}"
FillErrorMessage(field_name) ==
    <<"Erro", "ao", "preencher", "campo", field_name \o ":", "<v>">>

\* "Campo {field_name} nao preenchido"
NotFilledMessage(field_name) == <<"Campo", field_name, "nao", "preenchido">>

\* what the remote form can answer to the interactions of one _fill_field:
\* "ok", "error" (an interaction raises) or "timeout" (it raises
\* TimeoutError); for a read-only field also "missing" (no such element)
\* and "empty" (the element has no value)
RemoteAnswers == {"ok", "error", "timeout", "missing", "empty"}

\* _fill_field: the result, and the value typed into the form (None when
\* nothing was typed)
fill_field(field_name, value, answer) ==
    LET config == field_mappings[field_name]
        t == ApplyTransform(config.transform, value)
        failed == ValidationResult(FALSE, Some(FillErrorMessage(field_name)),
                                   Some("Verificar se o campo esta visivel"))
    IN  IF t.raised THEN [result |-> failed, typed |-> None]
        ELSE IF answer \in {"error", "timeout"}
        THEN [result |-> failed, typed |-> None]
        ELSE IF config.kind = "select"
        THEN [result |-> Valid, typed |-> Some(t.value)]
        ELSE IF config.kind = "read_only"
        THEN IF answer = "empty"
             THEN [result |-> ValidationResult(FALSE,
                                 Some(NotFilledMessage(field_name)),
                                 Some("Verificar preenchimento automatico")),
                   typed |-> None]
             ELSE [result |-> Valid, typed |-> None]
        ELSE [result |-> Valid, typed |-> Some(t.value)]

(* ----------------------------- FormFiller ------------------------------ *)
DEFAULT_CIDADE == <<"S","C","L">>
DEFAULT_DEPARTAMENTO == <<"D","e","p","a","r","t","a","m","e","n","t","o"," ","T","e","c","n","i","c","o">>
DEFAULT_RAZAO == <<"P","I","C"," ","-"," ","U","p","g","r","a","d","e">>
DEFAULT_AUTORIZADOR == <<"S","u","p","e","r","v","i","s","o","r"," ","A","u","t","o","r","i","z","a","d","o">>
DEFAULT_CTO_DES == <<"U","P","G","R","A","D","E">>

\* the local field_mappings dict of _map_sabre_to_latam: Sabre name -> form name
sabre_to_latam ==
    [s \in {"pnr", "carrier", "flight_num", "classe", "data_voo", "trecho",
            "status", "passenger_name"} |->
        CASE s = "pnr" -> "pnr"
          [] s = "carrier" -> "carrier"
          [] s = "flight_num" -> "vuelo"
          [] s = "classe" -> "classe"
          [] s = "data_voo" -> "data_voo"
          [] s = "trecho" -> "segmento"
          [] s = "status" -> "num_segmento"
          [] s = "passenger_name" -> "pax"]

static_defaults ==
    [f \in {"cidade", "departamento", "razao", "autorizador", "cto_des"} |->
        CASE f = "cidade" -> DEFAULT_CIDADE
          [] f = "departamento" -> DEFAULT_DEPARTAMENTO
          [] f = "razao" -> DEFAULT_RAZAO
          [] f = "autorizador" -> DEFAULT_AUTORIZADOR
          [] f = "cto_des" -> DEFAULT_CTO_DES]

\* _map_sabre_to_latam
map_sabre_to_latam(sabre_fields) ==
    LET present == {s \in DOMAIN sabre_to_latam : s \in DOMAIN sabre_fields}
        mapped == [f \in {sabre_to_latam[s] : s \in present} |->
                      sabre_fields[CHOOSE s \in present :
                                      sabre_to_latam[s] = f].value]
    IN  Update(mapped, static_defaults)

(* ------------------------------- state --------------------------------- *)
Threads == 1..MaxThreads

VARIABLES
    \* FormFiller.initialize_components has run (sabre_screen and
    \* image_processor exist)
    initialized,
    \* FormFiller.latam_form: [is_form_loaded]
    latam_form,
    \* FormFiller.sabre_screen
    sabre_screen,
    \* LatamAutoFiller.is_processing
    is_processing,
    \* LatamAutoFiller.status_indicator
    status_indicator,
    \* the last UI callback ended by raising
    ui_raised,
    \* run[t]: the call of process_complete_workflow executing on thread t:
    \* its position, its locals and its FillResult
    run,
    \* calls[t]: what the run on thread t has asked of its collaborators
    calls,
    \* the operations in flight against the remote form: [thread, op], op a
    \* field name or "submit"
    in_flight

vars == <<initialized, latam_form, sabre_screen, is_processing,
          status_indicator, ui_raised, run, calls, in_flight>>

\* FillResult(success, field_results, submission_result, error_message)
FillResult(success, field_results, submission_result, error_message) ==
    [success |-> success, field_results |-> field_results,
     submission_result |-> submission_result, error_message |-> error_message]

\* the locals of a call that has not started; n counts the calls made on
\* the thread.  op, args and ret are the name, the arguments and the return
\* value of a RulesEngine or StatusIndicator method called on the thread,
\* side the side of the merge in rules_engine.py that the build kept
NewRun(n) ==
    [pc |-> "idle", n |-> n, extracted_fields |-> EmptyDict,
     validation_results |-> << >>, field_mapping |-> EmptyDict, idx |-> 0,
     fill_results |-> << >>, submission_result |-> None,
     remote_failures |-> 0, result |-> None, retry_results |-> << >>,
     op |-> "", args |-> << >>, ret |-> None, side |-> ""]

NewCalls ==
    [detected |-> None, parse |-> 0, validate |-> 0, fills |-> << >>, sleeps |-> 0,
     submits |-> 0, stopped_filling |-> FALSE]

\* StatusIndicator.__init__
NewStatusIndicator ==
    [current_status |-> "INFO", status_message |-> "Pronto",
     is_processing |-> FALSE, progress |-> 0]

Init ==
    /\ initialized \in BOOLEAN
    /\ latam_form \in [is_form_loaded : BOOLEAN]
    /\ initialized = FALSE => latam_form.is_form_loaded = FALSE
    /\ sabre_screen = NewSabreScreen
    /\ is_processing = FALSE
    /\ status_indicator = NewStatusIndicator
    /\ ui_raised = FALSE
    /\ run = [t \in Threads |-> NewRun(0)]
    /\ calls = [t \in Threads |-> NewCalls]
    /\ in_flight = {}

(* ------------------ FormFiller.process_complete_workflow --------------- *)
Running(t) == run[t].pc \notin {"idle", "returned", "finally", "finished"}

\* return FillResult(...)
Return(t, result) ==
    run' = [run EXCEPT ![t].pc = "returned", ![t].result = Some(result)]

\* the index in FieldOrder of the next key after i that is in data, 0 when
\* the loop over field_mappings.items() is over
NextMapped(i, data) ==
    IF \E j \in (i + 1)..Len(FieldOrder) : FieldOrder[j] \in DOMAIN data
    THEN CHOOSE j \in (i + 1)..Len(FieldOrder) :
            /\ FieldOrder[j] \in DOMAIN data
            /\ \A k \in (i + 1)..(j - 1) : FieldOrder[k] \notin DOMAIN data
    ELSE 0

\* a caller invokes process_complete_workflow on thread t
Call(t) ==
    /\ run[t].pc \in {"idle", "returned"}
    /\ run[t].n < MaxRuns
    /\ run' = [run EXCEPT ![t] = [NewRun(run[t].n + 1) EXCEPT !.pc = "capture"]]
    /\ calls' = [calls EXCEPT ![t] = NewCalls]
    /\ UNCHANGED <<initialized, latam_form, sabre_screen, is_processing,
                   status_indicator, ui_raised, in_flight>>

\* Step 1 and the assignments of step 2: process_image_input returns the
\* recognized text; without initialize_components image_processor is None
\* and the call raises inside the try
ProcessImageInput(t, texts) ==
    /\ run[t].pc = "capture"
    /\ IF ~initialized
       THEN /\ Return(t, FillResult(FALSE, << >>, None, Some("Workflow error")))
            /\ UNCHANGED sabre_screen
       ELSE \E text \in texts :
              IF text.blank
              THEN /\ Return(t, FillResult(FALSE, << >>, None,
                                    Some("No text extracted from image")))
                   /\ UNCHANGED sabre_screen
              ELSE /\ sabre_screen' = [sabre_screen EXCEPT
                                          !.raw_image = TRUE,
                                          !.extracted_text = text]
                   /\ run' = [run EXCEPT ![t].pc = "detect"]
    /\ UNCHANGED <<initialized, latam_form, is_processing, status_indicator,
                   ui_raised, calls, in_flight>>

\* a workflow that stores the verdict but goes on to parse whatever it is
Detect_no_return(t) ==
    /\ run[t].pc = "detect"
    /\ sabre_screen' = [sabre_screen EXCEPT
                           !.is_valid_screen = detect_sabre_pattern(sabre_screen)]
    /\ calls' = [calls EXCEPT
                    ![t].detected = Some(detect_sabre_pattern(sabre_screen))]
    /\ run' = [run EXCEPT ![t].pc = "parse"]
    /\ UNCHANGED <<initialized, latam_form, is_processing, status_indicator,
                   ui_raised, in_flight>>

\* is_valid_screen = detect_sabre_pattern(), and the invalid-format return
Detect(t) ==
    /\ run[t].pc = "detect"
    /\ sabre_screen' = [sabre_screen EXCEPT
                           !.is_valid_screen = detect_sabre_pattern(sabre_screen)]
    /\ calls' = [calls EXCEPT
                    ![t].detected = Some(detect_sabre_pattern(sabre_screen))]
    /\ IF detect_sabre_pattern(sabre_screen)
       THEN run' = [run EXCEPT ![t].pc = "parse"]
       ELSE Return(t, FillResult(FALSE, << >>, None,
                         Some("Invalid Sabre screen format detected")))
    /\ UNCHANGED <<initialized, latam_form, is_processing, status_indicator,
                   ui_raised, in_flight>>

\* extracted_fields = self.sabre_screen.parse_fields()
Parse(t) ==
    /\ run[t].pc = "parse"
    /\ sabre_screen' = parse_fields(sabre_screen).screen
    /\ run' = [run EXCEPT ![t].pc = "validate",
                          ![t].extracted_fields = parse_fields(sabre_screen).fields]
    /\ calls' = [calls EXCEPT ![t].parse = @ + 1]
    /\ UNCHANGED <<initialized, latam_form, is_processing, status_indicator,
                   ui_raised, in_flight>>

\* a filter that keeps the valid results instead of the failed ones
critical_failures_inverted(results) ==
    {i \in 1..Len(results) : results[i].is_valid}

\* critical_failures = [r for r in validation_results if not r.is_valid],
\* as the positions of the failed results
critical_failures(results) == {i \in 1..Len(results) : ~results[i].is_valid}

\* Step 3: validate_integrity and the critical-failures return
Validate(t) ==
    LET results == validate_integrity(sabre_screen.extracted_fields)
    IN  /\ run[t].pc = "validate"
        /\ calls' = [calls EXCEPT ![t].validate = @ + 1]
        /\ IF critical_failures(results) # {}
           THEN run' = [run EXCEPT
                   ![t].pc = "returned",
                   ![t].validation_results = results,
                   ![t].result = Some(FillResult(FALSE, results, None,
                                        Some("Critical validation failures")))]
           ELSE run' = [run EXCEPT ![t].pc = "check_form",
                                   ![t].validation_results = results]
        /\ UNCHANGED <<initialized, latam_form, sabre_screen, is_processing,
                       status_indicator, ui_raised, in_flight>>

\* Step 4: the form must be loaded
CheckForm(t) ==
    /\ run[t].pc = "check_form"
    /\ IF ~latam_form.is_form_loaded
       THEN Return(t, FillResult(FALSE, run[t].validation_results, None,
                         Some("Latam form not available or not loaded")))
       ELSE run' = [run EXCEPT ![t].pc = "map"]
    /\ UNCHANGED <<initialized, latam_form, sabre_screen, is_processing,
                   status_indicator, ui_raised, calls, in_flight>>

\* Step 5: _map_sabre_to_latam, and fill_all up to its loop
Map(t) ==
    LET mapping == map_sabre_to_latam(run[t].extracted_fields) IN
    /\ run[t].pc = "map"
    /\ IF ~latam_form.is_form_loaded
       THEN run' = [run EXCEPT
               ![t].pc = "submit", ![t].field_mapping = mapping,
               ![t].fill_results =
                   << ValidationResult(FALSE,
                          Some(<<"Formulario", "nao", "carregado">>),
                          Some("Focar no formulario Latam")) >>]
       ELSE run' = [run EXCEPT
               ![t].pc = IF NextMapped(0, mapping) = 0 THEN "submit" ELSE "fill",
               ![t].field_mapping = mapping,
               ![t].idx = NextMapped(0, mapping)]
    /\ UNCHANGED <<initialized, latam_form, sabre_screen, is_processing,
                   status_indicator, ui_raised, calls, in_flight>>

\* a loop that starts the next _fill_field without awaiting the delay
FillBegin_no_wait(t) ==
    /\ run[t].pc \in {"fill", "pacing"}
    /\ run' = [run EXCEPT ![t].pc = "in_fill"]
    /\ calls' = [calls EXCEPT ![t].fills = Append(@, FieldOrder[run[t].idx])]
    /\ in_flight' = in_flight \cup {[thread |-> t, op |-> FieldOrder[run[t].idx]]}
    /\ UNCHANGED <<initialized, latam_form, sabre_screen, is_processing,
                   status_indicator, ui_raised>>

\* fill_all calls _fill_field for the next mapped field
FillBegin(t) ==
    /\ run[t].pc = "fill"
    /\ run' = [run EXCEPT ![t].pc = "in_fill"]
    /\ calls' = [calls EXCEPT ![t].fills = Append(@, FieldOrder[run[t].idx])]
    /\ in_flight' = in_flight \cup {[thread |-> t, op |-> FieldOrder[run[t].idx]]}
    /\ UNCHANGED <<initialized, latam_form, sabre_screen, is_processing,
                   status_indicator, ui_raised>>

\* the answers the remote form can give for a field
AnswersFor(field_name) ==
    IF field_mappings[field_name].kind = "read_only"
    THEN RemoteAnswers ELSE {"ok", "error", "timeout"}

FailingAnswers == {"error", "timeout", "empty"}

\* _fill_field returns; its result is appended to results
FillEnd(t, answers) ==
    /\ run[t].pc = "in_fill"
    /\ \E answer \in answers \cap AnswersFor(FieldOrder[run[t].idx]) :
          /\ answer \in FailingAnswers => run[t].remote_failures < MaxRemoteFailures
          /\ run' = [run EXCEPT
                ![t].pc = "pacing",
                ![t].remote_failures =
                    IF answer \in FailingAnswers THEN @ + 1 ELSE @,
                ![t].fill_results =
                    Append(@, fill_field(FieldOrder[run[t].idx],
                                  run[t].field_mapping[FieldOrder[run[t].idx]],
                                  answer).result)]
    /\ in_flight' = in_flight \ {[thread |-> t, op |-> FieldOrder[run[t].idx]]}
    /\ UNCHANGED <<initialized, latam_form, sabre_screen, is_processing,
                   status_indicator, ui_raised, calls>>

\* a loop that stops at the first failed field
Pace_abort_on_failure(t) ==
    /\ run[t].pc = "pacing"
    /\ calls' = [calls EXCEPT ![t].sleeps = @ + 1]
    /\ run' = [run EXCEPT
          ![t].pc = IF \/ NextMapped(run[t].idx, run[t].field_mapping) = 0
                       \/ ~run[t].fill_results[Len(run[t].fill_results)].is_valid
                    THEN "submit" ELSE "fill",
          ![t].idx = NextMapped(run[t].idx, run[t].field_mapping)]
    /\ UNCHANGED <<initialized, latam_form, sabre_screen, is_processing,
                   status_indicator, ui_raised, in_flight>>

\* await asyncio.sleep(0.2), then the loop goes to the next mapped field or
\* fill_all returns
Pace(t) ==
    /\ run[t].pc = "pacing"
    /\ calls' = [calls EXCEPT ![t].sleeps = @ + 1]
    /\ run' = [run EXCEPT
          ![t].pc = IF NextMapped(run[t].idx, run[t].field_mapping) = 0
                    THEN "submit" ELSE "fill",
          ![t].idx = NextMapped(run[t].idx, run[t].field_mapping)]
    /\ UNCHANGED <<initialized, latam_form, sabre_screen, is_processing,
                   status_indicator, ui_raised, in_flight>>

\* Step 6: submit_form is called
SubmitBegin(t) ==
    /\ run[t].pc = "submit"
    /\ run' = [run EXCEPT ![t].pc = "in_submit"]
    /\ calls' = [calls EXCEPT ![t].submits = @ + 1]
    /\ in_flight' = in_flight \cup {[thread |-> t, op |-> "submit"]}
    /\ UNCHANGED <<initialized, latam_form, sabre_screen, is_processing,
                   status_indicator, ui_raised>>

\* what the remote form can answer to submit_form: the button is clicked and
\* a success indicator shows ("confirmed") or none does ("unconfirmed"),
\* there is no submit button ("no_button"), an interaction raises ("error")
SubmitAnswers == {"confirmed", "unconfirmed", "no_button", "error"}

\* submit_form
submit_form(form, answer) ==
    IF ~form.is_form_loaded
    THEN ValidationResult(FALSE, Some(<<"Formulario", "nao", "carregado">>),
                          Some("Focar no formulario Latam"))
    ELSE CASE answer = "confirmed" -> Valid
           [] answer = "unconfirmed" ->
                ValidationResult(TRUE,
                    Some(<<"Formulario", "submetido", "(verificar",
                           "confirmacao", "manualmente)">>), None)
           [] answer = "no_button" ->
                ValidationResult(FALSE,
                    Some(<<"Botao", "de", "envio", "nao", "encontrado">>),
                    Some("Verificar se o formulario esta completo"))
           [] answer = "error" ->
                ValidationResult(FALSE,
                    Some(<<"Erro", "ao", "submeter", "formulario:", "<v>">>),
                    Some("Verificar conexao e formulario"))

\* a total that forgets the submission
total_success_fills_only(fill_results, submission_result) ==
    \A i \in 1..Len(fill_results) : fill_results[i].is_valid

\* total_success of step 7
total_success(fill_results, submission_result) ==
    /\ \A i \in 1..Len(fill_results) : fill_results[i].is_valid
    /\ submission_result.is_valid

\* submit_form returns; step 7 compiles the FillResult
SubmitEnd(t) ==
    /\ run[t].pc = "in_submit"
    /\ \E answer \in SubmitAnswers :
          LET submission == submit_form(latam_form, answer) IN
          run' = [run EXCEPT
                ![t].pc = "returned",
                ![t].submission_result = Some(submission),
                ![t].result =
                    Some(FillResult(total_success(run[t].fill_results, submission),
                                    run[t].fill_results, Some(submission), None))]
    /\ in_flight' = in_flight \ {[thread |-> t, op |-> "submit"]}
    /\ UNCHANGED <<initialized, latam_form, sabre_screen, is_processing,
                   status_indicator, ui_raised, calls>>

\* one step of the workflow on thread t
Workflow(t, texts, answers) ==
    \/ ProcessImageInput(t, texts)
    \/ Detect(t)
    \/ Parse(t)
    \/ Validate(t)
    \/ CheckForm(t)
    \/ Map(t)
    \/ FillBegin(t)
    \/ FillEnd(t, answers)
    \/ Pace(t)
    \/ SubmitBegin(t)
    \/ SubmitEnd(t)

\* consecutive calls of process_complete_workflow by one caller
Next == Call(1) \/ Workflow(1, Texts, RemoteAnswers)

Spec == Init /\ [][Next]_vars

(* --------------------------- StatusIndicator --------------------------- *)
\* a set_status that stores the progress as it is given
set_status_unclamped(si, status, message, progress) ==
    [si EXCEPT !.current_status = status, !.status_message = message,
               !.progress = progress]

\* set_status(status, message, progress) with a progress
set_status(si, status, message, progress) ==
    [si EXCEPT !.current_status = status, !.status_message = message,
               !.progress = IF progress < 0 THEN 0
                            ELSE IF progress > 100 THEN 100 ELSE progress]

\* StatusIndicator.start_processing
si_start_processing(si, message) ==
    set_status([si EXCEPT !.is_processing = TRUE], "PROCESSING", message, 0)

\* StatusIndicator.stop_processing
si_stop_processing(si, success, message) ==
    IF success
    THEN set_status([si EXCEPT !.is_processing = FALSE], "SUCCESS", message, 100)
    ELSE set_status([si EXCEPT !.is_processing = FALSE], "ERROR", message, 0)

\* StatusIndicator.reset
si_reset(si) == NewStatusIndicator

\* set_status(status, message, progress=None): the progress is kept when
\* none is given
si_set_status(si, status, message, progress) ==
    IF progress = None
    THEN [si EXCEPT !.current_status = status, !.status_message = message]
    ELSE set_status(si, status, message, progress[1])

\* StatusIndicator.update_progress(progress, message=None)
si_update_progress(si, progress, message) ==
    LET clamped == IF progress < 0 THEN 0
                   ELSE IF progress > 100 THEN 100 ELSE progress
    IN  IF message # None
        THEN set_status([si EXCEPT !.progress = clamped], si.current_status,
                        message[1], clamped)
        ELSE [si EXCEPT !.progress = clamped]

\* StatusIndicator.show_notification(message, level)
si_show_notification(si, message, level) ==
    si_set_status(si, level, message, None)

(* --------------------------- LatamAutoFiller --------------------------- *)
\* the recognized texts of the runs the UI launches: no text, and a screen
\* without fields below and one at the detection threshold
AppTexts ==
    { BlankText,
      [BlankText EXCEPT !.blank = FALSE, !.indicators = 4],
      [BlankText EXCEPT !.blank = FALSE, !.indicators = 5] }

\* the 'start' button: start_processing
StartProcessing ==
    /\ ui_raised' = FALSE
    /\ IF is_processing
       THEN UNCHANGED <<is_processing, status_indicator, run, calls>>
       ELSE /\ \E t \in Threads : run[t].pc = "idle"
            /\ LET t == CHOOSE u \in Threads :
                          /\ run[u].pc = "idle"
                          /\ \A v \in Threads : run[v].pc = "idle" => u <= v
               IN  /\ run' = [run EXCEPT ![t] = [NewRun(1) EXCEPT !.pc = "capture"]]
                   /\ calls' = [calls EXCEPT ![t] = NewCalls]
            /\ is_processing' = TRUE
            /\ status_indicator' =
                   si_start_processing(status_indicator, "Iniciando processamento...")
    /\ UNCHANGED <<initialized, latam_form, sabre_screen, in_flight>>

\* the 'stop' button: stop_processing clears the flag, then calls
\* status_indicator.set_processing, which StatusIndicator does not define:
\* the callback ends with AttributeError.  calls records the runs that the
\* stop found in their fill loop
StopProcessing ==
    /\ is_processing' = FALSE
    /\ ui_raised' = TRUE
    /\ calls' = [t \in Threads |->
                    IF run[t].pc \in {"fill", "in_fill", "pacing"}
                    THEN [calls[t] EXCEPT !.stopped_filling = TRUE]
                    ELSE calls[t]]
    /\ UNCHANGED <<initialized, latam_form, sabre_screen, status_indicator,
                   run, in_flight>>

\* the 'clear' button: clear_status
ClearStatus ==
    /\ ui_raised' = FALSE
    /\ status_indicator' = si_reset(status_indicator)
    /\ UNCHANGED <<initialized, latam_form, sabre_screen, is_processing, run,
                   calls, in_flight>>

\* _run_processing, after asyncio.run returned: the status indicator is told
\* the outcome
HandleResult(t) ==
    /\ run[t].pc = "returned"
    /\ status_indicator' =
          si_stop_processing(status_indicator, run[t].result[1].success,
              IF run[t].result[1].success
              THEN "Processamento concluido com sucesso!"
              ELSE "Processamento falhou")
    /\ run' = [run EXCEPT ![t].pc = "finally"]
    /\ UNCHANGED <<initialized, latam_form, sabre_screen, is_processing,
                   ui_raised, calls, in_flight>>

\* a worker that ends without clearing the flag
Finally_flag_kept(t) ==
    /\ run[t].pc = "finally"
    /\ run' = [run EXCEPT ![t] = [NewRun(1) EXCEPT !.pc = "finished"]]
    /\ calls' = [calls EXCEPT ![t] = NewCalls]
    /\ UNCHANGED <<initialized, latam_form, sabre_screen, is_processing,
                   status_indicator, ui_raised, in_flight>>

\* _run_processing, finally: is_processing = False; the thread ends and its
\* locals with it
Finally(t) ==
    /\ run[t].pc = "finally"
    /\ is_processing' = FALSE
    /\ run' = [run EXCEPT ![t] = [NewRun(1) EXCEPT !.pc = "finished"]]
    /\ calls' = [calls EXCEPT ![t] = NewCalls]
    /\ UNCHANGED <<initialized, latam_form, sabre_screen, status_indicator,
                   ui_raised, in_flight>>

\* the UI thread and the worker threads it launches
NextApp ==
    \/ StartProcessing
    \/ StopProcessing
    \/ ClearStatus
    \/ \E t \in Threads :
          \/ Workflow(t, AppTexts, {"ok"})
          \/ HandleResult(t)
          \/ Finally(t)

SpecApp == Init /\ [][NextApp]_vars

\* a started worker thread is scheduled until it ends: the steps of
\* _run_processing are taken as long as one is possible (the collaborators
\* of the workflow return)
Worker(t) == Workflow(t, AppTexts, {"ok"}) \/ HandleResult(t) \/ Finally(t)

SpecAppFair == SpecApp /\ \A t \in Threads : WF_vars(Worker(t))

(* -------------------- FormFiller.retry_failed_fields ------------------- *)
\* "Campo {field_name} nao mapeado"
UnmappedMessage(field_name) == <<"Campo", field_name, "nao", "mapeado">>

FormNotLoaded ==
    ValidationResult(FALSE, Some(<<"Formulario", "nao", "carregado">>),
                     Some("Focar no formulario Latam"))

\* str.lower() on a token
LowerToken(tok) == IF tok \in {"Campo", "CAMPO"} THEN "campo" ELSE tok

\* the names that can follow the word "campo" in a message
TokenNames == FieldNames \cup DOMAIN sabre_to_latam

\* part.replace(":", "").replace(".", "") on a token
StripPunctuation(tok) ==
    IF tok \in {":", ".", ":.", ".:"} THEN ""
    ELSE IF \E f \in TokenNames : tok \in {f \o ":", f \o ".", f \o ":."}
    THEN CHOOSE f \in TokenNames : tok \in {f \o ":", f \o ".", f \o ":."}
    ELSE tok

\* a recovery that keeps the punctuation of the token after "campo"
extract_field_name_unstripped(result) ==
    IF result.error_message = None THEN None
    ELSE LET parts == result.error_message[1]
             hits == {i \in 1..Len(parts) :
                         LowerToken(parts[i]) = "campo" /\ i + 1 <= Len(parts)}
         IN  IF hits = {} THEN None
             ELSE Some(parts[(CHOOSE i \in hits : \A j \in hits : i <= j) + 1])

\* _extract_field_name_from_result: the token after the first word "campo"
\* that has a successor, without ':' and '.'; None when there is none.  (The
\* substring test on the lowered message is implied by the token test.)
extract_field_name_from_result(result) ==
    IF result.error_message = None THEN None
    ELSE LET parts == result.error_message[1]
             hits == {i \in 1..Len(parts) :
                         LowerToken(parts[i]) = "campo" /\ i + 1 <= Len(parts)}
         IN  IF hits = {} THEN None
             ELSE Some(StripPunctuation(
                      parts[(CHOOSE i \in hits : \A j \in hits : i <= j) + 1]))

\* the prior outcomes handed to retry_failed_fields
RetryOutcomes ==
    { Valid,
      fill_field("pnr", Sample.PNR_ABC123, "error").result,
      fill_field("pais", << >>, "empty").result,
      FormNotLoaded,
      ValidationResult(FALSE, Some(UnmappedMessage("flight_num")),
                       Some("Verificar mapeamento de campos")) }

RetryLists == UNION { [1..n -> RetryOutcomes] : n \in 0..MaxRetryLen }

\* the extracted_data handed to retry_failed_fields
RetryData ==
    LET all == [k \in {"pnr", "pais", "flight_num"} |->
                   CASE k = "pnr" -> Sample.PNR_ABC123
                     [] k = "pais" -> <<"C", "L">>
                     [] k = "flight_num" -> Sample.FLIGHT_6375]
    IN  { [k \in keys |-> all[k]] :
            keys \in { {}, {"pnr"}, {"pais", "flight_num"},
                       {"pnr", "pais", "flight_num"} } }

\* retry_failed_fields(fill_results, extracted_data) has been called on
\* thread 1: fill_results and field_mapping hold its arguments, idx the
\* position of its loop
InitRetry ==
    /\ initialized \in BOOLEAN
    /\ latam_form \in [is_form_loaded : BOOLEAN]
    /\ initialized = FALSE => latam_form.is_form_loaded = FALSE
    /\ sabre_screen = NewSabreScreen
    /\ is_processing = FALSE
    /\ status_indicator = NewStatusIndicator
    /\ ui_raised = FALSE
    /\ \E results \in RetryLists, data \in RetryData :
          run = [t \in Threads |->
                    IF t = 1
                    THEN [NewRun(1) EXCEPT !.pc = "retry", !.idx = 1,
                                           !.fill_results = results,
                                           !.field_mapping = data]
                    ELSE NewRun(0)]
    /\ calls = [t \in Threads |-> NewCalls]
    /\ in_flight = {}

\* one iteration of the loop up to the call of _fill_field: a valid result
\* and a failed result without a field name in extracted_data are kept;
\* otherwise fill_single_field runs, and returns at once when the form is
\* not loaded or the field has no entry in field_mappings
RetryStep(t) ==
    LET result == run[t].fill_results[run[t].idx]
        name == extract_field_name_from_result(result)
        data == run[t].field_mapping
        keep(r) == run' = [run EXCEPT ![t].retry_results = Append(@, r),
                                      ![t].idx = @ + 1]
    IN  /\ run[t].pc = "retry"
        /\ run[t].idx <= Len(run[t].fill_results)
        /\ IF result.is_valid
           THEN keep(result) /\ UNCHANGED <<calls, in_flight>>
           ELSE IF name = None \/ name = Some("") \/ name[1] \notin DOMAIN data
           THEN keep(result) /\ UNCHANGED <<calls, in_flight>>
           ELSE IF ~latam_form.is_form_loaded
           THEN keep(FormNotLoaded) /\ UNCHANGED <<calls, in_flight>>
           ELSE IF name[1] \notin DOMAIN field_mappings
           THEN /\ keep(ValidationResult(FALSE, Some(UnmappedMessage(name[1])),
                                         Some("Verificar mapeamento de campos")))
                /\ UNCHANGED <<calls, in_flight>>
           ELSE /\ run' = [run EXCEPT ![t].pc = "retry_in_fill"]
                /\ calls' = [calls EXCEPT ![t].fills = Append(@, name[1])]
                /\ in_flight' = in_flight \cup {[thread |-> t, op |-> name[1]]}
        /\ UNCHANGED <<initialized, latam_form, sabre_screen, is_processing,
                       status_indicator, ui_raised>>

\* _fill_field returns inside fill_single_field
RetryFillEnd(t) ==
    LET name == calls[t].fills[Len(calls[t].fills)] IN
    /\ run[t].pc = "retry_in_fill"
    /\ \E answer \in AnswersFor(name) :
          /\ answer \in FailingAnswers => run[t].remote_failures < MaxRemoteFailures
          /\ run' = [run EXCEPT
                ![t].pc = "retry_pacing",
                ![t].remote_failures =
                    IF answer \in FailingAnswers THEN @ + 1 ELSE @,
                ![t].retry_results =
                    Append(@, fill_field(name, run[t].field_mapping[name],
                                         answer).result)]
    /\ in_flight' = in_flight \ {[thread |-> t, op |-> name]}
    /\ UNCHANGED <<initialized, latam_form, sabre_screen, is_processing,
                   status_indicator, ui_raised, calls>>

\* await asyncio.sleep(self.human_delay) in fill_single_field
RetryPace(t) ==
    /\ run[t].pc = "retry_pacing"
    /\ calls' = [calls EXCEPT ![t].sleeps = @ + 1]
    /\ run' = [run EXCEPT ![t].pc = "retry", ![t].idx = @ + 1]
    /\ UNCHANGED <<initialized, latam_form, sabre_screen, is_processing,
                   status_indicator, ui_raised, in_flight>>

\* return retry_results
RetryReturn(t) ==
    /\ run[t].pc = "retry"
    /\ run[t].idx > Len(run[t].fill_results)
    /\ run' = [run EXCEPT ![t].pc = "retry_done"]
    /\ UNCHANGED <<initialized, latam_form, sabre_screen, is_processing,
                   status_indicator, ui_raised, calls, in_flight>>

NextRetry == RetryStep(1) \/ RetryFillEnd(1) \/ RetryPace(1) \/ RetryReturn(1)

SpecRetry == InitRetry /\ [][NextRetry]_vars

(* ------------------------------ properties ----------------------------- *)
Failed(results) == {i \in 1..Len(results) : ~results[i].is_valid}

\* the run on thread t is in the fill phase or past it
Filling(t) == run[t].pc \in {"fill", "in_fill", "pacing"}
Submitting(t) == run[t].pc \in {"submit", "in_submit"}
Returned(t) == run[t].pc \in {"returned", "finally", "finished"}

\* the operations of the run on thread t that are in flight
InFlightOf(t) == {e \in in_flight : e.thread = t}

\* C1: a run whose validate_integrity returned a failed outcome has ended
\* with success = false, and has called neither _fill_field nor submit_form.
C1_FailedValidationBlocksFill ==
    \A t \in Threads :
        Failed(run[t].validation_results) # {} =>
            /\ Returned(t)
            /\ run[t].result # None
            /\ run[t].result[1].success = FALSE
            /\ calls[t].fills = << >>
            /\ calls[t].submits = 0

C1_Witness ==
    \E t \in Threads :
        /\ Failed(run[t].validation_results) # {}
        /\ run[t].pc = "returned"
        /\ Len(run[t].validation_results) >= 2

\* C2 (as claimed): once a run has extracted an ineligible class (outside
\* Q, S, Y) and is past validation, it has ended with failed validation
\* outcomes and no _fill_field call, whatever else was extracted.
C2_IneligibleClassBlocksFill ==
    \A t \in Threads :
        ( /\ run[t].pc \notin {"idle", "capture", "detect", "parse", "validate"}
          /\ "classe" \in DOMAIN run[t].extracted_fields
          /\ Upper(run[t].extracted_fields["classe"].value) \notin eligible_classes )
        => /\ Returned(t)
           /\ Failed(run[t].validation_results) # {}
           /\ calls[t].fills = << >>

\* C3: when exactly one _fill_field of a run failed and fill_all is over,
\* _fill_field was called once for each of the N mapped fields, in the order
\* of field_mappings, there are N outcomes, the failed one is an ordinary
\* failed ValidationResult with message and hint, and the run's success is
\* false.
C3_FailSoftFill ==
    \A t \in Threads :
        ( /\ Submitting(t) \/ (Returned(t) /\ run[t].submission_result # None)
          /\ Cardinality(Failed(run[t].fill_results)) = 1 )
        => /\ Len(calls[t].fills) = Cardinality(DOMAIN run[t].field_mapping)
           /\ {calls[t].fills[i] : i \in 1..Len(calls[t].fills)}
                  = DOMAIN run[t].field_mapping
           /\ Len(run[t].fill_results) = Len(calls[t].fills)
           /\ \A i \in Failed(run[t].fill_results) :
                 /\ run[t].fill_results[i].error_message # None
                 /\ run[t].fill_results[i].suggested_action # None
           /\ Returned(t) => run[t].result[1].success = FALSE

\* a finished run in which a field in the middle of the mapping failed
C3_Witness ==
    \E t \in Threads :
        /\ run[t].pc = "returned"
        /\ run[t].submission_result # None
        /\ Cardinality(Failed(run[t].fill_results)) = 1
        /\ ~run[t].fill_results[2].is_valid
        /\ Len(calls[t].fills) >= 6

\* C6: a returned run that reached submit_form has success = true exactly
\* when every fill outcome and the submission outcome are valid; a returned
\* run that did not reach it has success = false.
C6_SuccessIffAllValid ==
    \A t \in Threads :
        (Returned(t) /\ run[t].result # None) =>
            IF calls[t].submits > 0
            THEN /\ run[t].result[1].submission_result # None
                 /\ run[t].result[1].success
                      = ( /\ Failed(run[t].result[1].field_results) = {}
                          /\ run[t].result[1].submission_result[1].is_valid )
            ELSE run[t].result[1].success = FALSE

\* a run that ended Completed
C6_Witness ==
    \E t \in Threads :
        /\ run[t].pc = "returned"
        /\ calls[t].submits = 1
        /\ run[t].result[1].success = TRUE

\* C7: a run whose detect_sabre_pattern returned false has ended with the
\* invalid-format message, success = false and no field outcomes, and made
\* no parse_fields, validate_integrity, _fill_field or submit_form call.
C7_InvalidFormatEndsRun ==
    \A t \in Threads :
        calls[t].detected = Some(FALSE) =>
            /\ Returned(t)
            /\ run[t].result
                 = Some(FillResult(FALSE, << >>, None,
                            Some("Invalid Sabre screen format detected")))
            /\ calls[t].parse = 0
            /\ calls[t].validate = 0
            /\ calls[t].fills = << >>
            /\ calls[t].submits = 0

\* a second run rejected as invalid format after a run that parsed fields
C7_Witness ==
    \E t \in Threads :
        /\ calls[t].detected = Some(FALSE)
        /\ run[t].pc = "returned"
        /\ run[t].n = 2
        /\ sabre_screen.extracted_fields # EmptyDict

\* C8: a run never has two operations in flight; while a _fill_field is in
\* flight every earlier one was followed by its delay; submit_form is called
\* at most once, with no fill in flight, after one _fill_field and one delay
\* for every mapped field; and a run that filled has submitted exactly once
\* when it returns, whether or not some fills failed.
C8_SequentialFillThenSubmit ==
    \A t \in Threads :
        /\ Cardinality(InFlightOf(t)) <= 1
        /\ run[t].pc = "in_fill" =>
              /\ InFlightOf(t) = {[thread |-> t, op |-> FieldOrder[run[t].idx]]}
              /\ calls[t].sleeps = Len(calls[t].fills) - 1
        /\ run[t].pc = "fill" =>
              /\ InFlightOf(t) = {}
              /\ calls[t].sleeps = Len(calls[t].fills)
        /\ calls[t].submits <= 1
        /\ calls[t].submits = 1 =>
              /\ Len(calls[t].fills) = Cardinality(DOMAIN run[t].field_mapping)
              /\ {calls[t].fills[i] : i \in 1..Len(calls[t].fills)}
                     = DOMAIN run[t].field_mapping
              /\ calls[t].sleeps = Len(calls[t].fills)
              /\ \A e \in InFlightOf(t) : e.op = "submit"
        /\ (Returned(t) /\ calls[t].fills # << >>) => calls[t].submits = 1

\* a run that submitted after a failed fill
C8_Witness ==
    \E t \in Threads :
        /\ run[t].pc = "in_submit"
        /\ Failed(run[t].fill_results) # {}
        /\ Len(calls[t].fills) >= 6

\* C10 (as claimed): once a run has mapped its fields, each of the 14 keys of
\* field_mappings has a value to fill.
C10_EveryConfiguredFieldMapped ==
    \A t \in Threads :
        (Filling(t) \/ Submitting(t)) => DOMAIN run[t].field_mapping = FieldNames

\* C4 (as claimed): at most one process_complete_workflow is executing at
\* any time.
C4_AtMostOneRun == Cardinality({t \in Threads : Running(t)}) <= 1

\* C5 (as claimed): once stop_processing has found a run in its fill loop,
\* no step of that run starts a further _fill_field or calls submit_form.
C5_StopEndsFilling ==
    [][\A t \in Threads :
          (calls[t].stopped_filling /\ Running(t)) =>
              /\ calls'[t].fills = calls[t].fills
              /\ calls'[t].submits = calls[t].submits]_vars

\* the prior results of a returned retry that are failed / that were
\* re-attempted with a call of _fill_field
RetryDone(t) == run[t].pc = "retry_done"

\* C9 (as claimed): when retry_failed_fields returns, the list has the
\* length of the input, every prior valid outcome is unchanged at its
\* position, and there was exactly one _fill_field call and one delay for
\* every prior failed outcome.
C9_RetryEveryFailed ==
    \A t \in Threads :
        RetryDone(t) =>
            /\ Len(run[t].retry_results) = Len(run[t].fill_results)
            /\ \A i \in 1..Len(run[t].fill_results) :
                  run[t].fill_results[i].is_valid =>
                      run[t].retry_results[i] = run[t].fill_results[i]
            /\ Len(calls[t].fills) = Cardinality(Failed(run[t].fill_results))
            /\ calls[t].sleeps = Cardinality(Failed(run[t].fill_results))

\* the field a failed outcome names: the word after "campo" / "Campo",
\* with or without a trailing colon
NamesField(result, f) ==
    /\ result.error_message # None
    /\ \E i \in 1..(Len(result.error_message[1]) - 1) :
          /\ result.error_message[1][i] \in {"campo", "Campo"}
          /\ result.error_message[1][i + 1] \in {f, f \o ":"}
          /\ \A j \in 1..(i - 1) :
                result.error_message[1][j] \notin {"campo", "Campo"}

\* the positions of the prior results that retry_failed_fields re-attempts,
\* and those among them for which it calls _fill_field
Reattempted(t) ==
    {i \in Failed(run[t].fill_results) :
        \E f \in DOMAIN run[t].field_mapping : NamesField(run[t].fill_results[i], f)}

Refilled(t) ==
    {i \in Reattempted(t) :
        /\ latam_form.is_form_loaded
        /\ \E f \in FieldNames : NamesField(run[t].fill_results[i], f)}

\* the sequence of the fields named at the positions of a set, in order
RECURSIVE NamedFields(_, _, _)
NamedFields(results, positions, i) ==
    IF i > Len(results) THEN << >>
    ELSE (IF i \in positions
          THEN << CHOOSE f \in TokenNames : NamesField(results[i], f) >>
          ELSE << >>) \o NamedFields(results, positions, i + 1)

\* C9 (amended): when retry_failed_fields returns, the list has the length
\* of the input; every prior valid outcome, and every prior failed outcome
\* whose message does not name a key of extracted_data after the word
\* "campo", is unchanged at its position and caused no call; every other
\* prior failed outcome is replaced at its position: by the outcome of one
\* _fill_field call for the named field, followed by one delay, when the
\* form is loaded and the field is a key of field_mappings, and otherwise,
\* without a call, by a failed outcome saying that the form is not loaded or
\* the field not mapped.
C9_RetryNamedFailed ==
    \A t \in Threads :
        RetryDone(t) =>
            /\ Len(run[t].retry_results) = Len(run[t].fill_results)
            /\ \A i \in 1..Len(run[t].fill_results) :
                  LET prior == run[t].fill_results[i]
                      new == run[t].retry_results[i]
                  IN  IF i \notin Reattempted(t) THEN new = prior
                      ELSE IF ~latam_form.is_form_loaded THEN new = FormNotLoaded
                      ELSE IF i \notin Refilled(t)
                      THEN /\ ~new.is_valid
                           /\ \E f \in DOMAIN run[t].field_mapping :
                                 /\ NamesField(prior, f)
                                 /\ new.error_message = Some(UnmappedMessage(f))
                      ELSE \E f \in FieldNames, answer \in RemoteAnswers :
                              /\ NamesField(prior, f)
                              /\ new = fill_field(f, run[t].field_mapping[f],
                                                  answer).result
            /\ calls[t].fills
                 = NamedFields(run[t].fill_results, Refilled(t), 1)
            /\ calls[t].sleeps = Cardinality(Refilled(t))

\* a returned retry that kept a valid outcome and a failed outcome without
\* a field name, and refilled a named field
C9_Witness ==
    \E t \in Threads :
        /\ RetryDone(t)
        /\ Len(run[t].fill_results) = 3
        /\ run[t].fill_results[1] = FormNotLoaded
        /\ run[t].fill_results[2].is_valid
        /\ Refilled(t) = {3}
        /\ calls[t].fills = <<"pnr">>
        /\ run[t].retry_results[3].is_valid

\* C11 (as claimed): when a run has returned, extracted_fields of the screen
\* holds exactly the fields parsed from that run's recognized text: nothing
\* when the capture gave no text or was rejected as invalid format.
C11_FieldsOfThisRunOnly ==
    \A t \in Threads :
        (Returned(t) /\ run[t].n >= 1) =>
            sabre_screen.extracted_fields =
                (IF calls[t].parse > 0
                 THEN ParsedFields(sabre_screen.extracted_text)
                 ELSE EmptyDict)

(* ------------------- SabreScreen used on its own ----------------------- *)
\* the characters that follow the label 'Nomes' in a recognized text
AfterLabels ==
    UNION { [1..n -> {"\n", " ", "S"}] : n \in 0..MaxAfterLabel }

\* group 1 of re.search(r'Nomes\s*\n\s*([^\n]+)', text) for the characters
\* that follow the label.  The two \s* take the leading whitespace, which
\* must hold a line feed; [^\n]+ then takes the rest of the line that starts
\* at the first other character.  When only whitespace follows the label,
\* backtracking hands [^\n]+ the last space that comes after a line feed
name_match(after) ==
    LET lead == CHOOSE n \in 0..Len(after) :
                    /\ \A i \in 1..n : after[i] \in Whitespace
                    /\ n < Len(after) => after[n + 1] \notin Whitespace
        stop == CHOOSE m \in lead + 1..Len(after) :
                    /\ \A i \in lead + 1..m : after[i] # "\n"
                    /\ m < Len(after) => after[m + 1] = "\n"
    IN  IF \A i \in 1..lead : after[i] # "\n" THEN None
        ELSE IF lead < Len(after) THEN Some(SubSeq(after, lead + 1, stop))
        ELSE IF \E i \in 1..lead : \E j \in i + 1..lead :
                    after[i] = "\n" /\ after[j] = " "
             THEN Some(<<" ">>)
        ELSE None

\* group 1 of re.search(r'Reserva\s*-\s*([A-Z0-9]{6})', text), None when
\* the pattern is not found; ignorecase is re.IGNORECASE, which the
\* indicator of detect_sabre_pattern sets and parse_fields does not.  The
\* pattern has nothing after the 6 characters, so what follows them in the
\* text is not looked at
reserva_search(text, ignorecase) ==
    LET label == <<"R", "e", "s", "e", "r", "v", "a">>
        Fold(c) == IF ignorecase THEN UpperChar(c) ELSE c
        class == IF ignorecase
                 THEN UpperSet \cup DigitChars
                      \cup {LowerLetters[k] : k \in 1..26}
                 ELSE UpperSet \cup DigitChars
        SkipWs(i) == CHOOSE j \in i..Len(text) + 1 :
                         /\ \A k \in i..j - 1 : text[k] \in Whitespace
                         /\ j <= Len(text) => text[j] \notin Whitespace
        dash(i) == SkipWs(i + Len(label))
        group(i) == SkipWs(dash(i) + 1)
        MatchAt(i) ==
            /\ i + Len(label) - 1 <= Len(text)
            /\ \A k \in 1..Len(label) : Fold(text[i + k - 1]) = Fold(label[k])
            /\ dash(i) <= Len(text) /\ text[dash(i)] = "-"
            /\ group(i) + 5 <= Len(text)
            /\ \A k \in group(i)..group(i) + 5 : text[k] \in class
        starts == {i \in 1..Len(text) : MatchAt(i)}
        first == CHOOSE i \in starts : \A j \in starts : i <= j
    IN  IF starts = {} THEN None
        ELSE Some(SubSeq(text, group(first), group(first) + 5))

\* the recognized texts 'Reserva - ' followed by a token of capitals, digits
\* and small letters
ReservaTexts ==
    { <<"R", "e", "s", "e", "r", "v", "a", " ", "-", " ">> \o token :
        token \in UNION { [1..n -> {"A", "7", "a"}] : n \in 0..MaxPnrLen } }

\* what the patterns of SabreScreen find in a text of characters without
\* 'Nomes', itinerary lines, ticket number or authorization, of whose 7
\* other indicators `others` are found
RecognizedText(chars, others) ==
    [blank |-> chars = << >>,
     indicators |-> IF chars = << >> THEN 0
                    ELSE others + (IF reserva_search(chars, TRUE) # None
                                   THEN 1 ELSE 0),
     pnr |-> reserva_search(chars, FALSE), name |-> None, flights |-> << >>,
     tkt |-> None, auth |-> None]

\* SabreOCR._clean_sabre_text
clean_sabre_text(text) ==
    LET \* re.sub(pattern, repl, s): the matches are replaced from left to
        \* right, without overlap.  MatchEnd(s, i) is the position of the
        \* last character of the match that starts at i, 0 when there is
        \* none; Repl(s, i) is what replaces it
        re_sub(s, MatchEnd(_, _), Repl(_, _)) ==
            LET G[i \in 1..Len(s) + 1] ==
                    IF i > Len(s) THEN << >>
                    ELSE IF MatchEnd(s, i) > 0
                    THEN Repl(s, i) \o G[MatchEnd(s, i) + 1]
                    ELSE <<s[i]>> \o G[i + 1]
            IN  G[1]
        word == UpperSet \cup DigitChars \cup {"_"}
                \cup {LowerLetters[k] : k \in 1..26}
        SkipWs(s, i) == CHOOSE j \in i..Len(s) + 1 :
                            /\ \A k \in i..j - 1 : s[k] \in Whitespace
                            /\ j <= Len(s) => s[j] \notin Whitespace
        \* re.sub(r'\s+', ' ', text)
        SpaceEnd(s, i) == IF s[i] \in Whitespace THEN SkipWs(s, i) - 1 ELSE 0
        SpaceRepl(s, i) == <<" ">>
        spaced == re_sub(text, SpaceEnd, SpaceRepl)
        \* re.sub(r'\b' + wrong + r'\b', correct, text) for 0, 1, 5, 8: a
        \* digit that stands alone as a word
        replacements == [d \in {"0", "1", "5", "8"} |->
                            CASE d = "0" -> "O" [] d = "1" -> "I"
                              [] d = "5" -> "S" [] d = "8" -> "B"]
        fixed == [i \in 1..Len(spaced) |->
                    IF /\ spaced[i] \in DOMAIN replacements
                       /\ (i = 1 \/ spaced[i - 1] \notin word)
                       /\ (i = Len(spaced) \/ spaced[i + 1] \notin word)
                    THEN replacements[spaced[i]] ELSE spaced[i]]
        \* re.sub(r'Reserva\s*-\s*([A-Z0-9]{6})', r'Reserva - \1', text)
        label == <<"R", "e", "s", "e", "r", "v", "a">>
        Dash(s, i) == SkipWs(s, i + Len(label))
        Code(s, i) == SkipWs(s, Dash(s, i) + 1)
        ReservaEnd(s, i) ==
            IF /\ i + Len(label) - 1 <= Len(s)
               /\ SubSeq(s, i, i + Len(label) - 1) = label
               /\ Dash(s, i) <= Len(s) /\ s[Dash(s, i)] = "-"
               /\ Code(s, i) + 5 <= Len(s)
               /\ \A k \in Code(s, i)..Code(s, i) + 5 :
                      s[k] \in UpperSet \cup DigitChars
            THEN Code(s, i) + 5 ELSE 0
        ReservaRepl(s, i) ==
            label \o <<" ", "-", " ">> \o SubSeq(s, Code(s, i), Code(s, i) + 5)
        reserva == re_sub(fixed, ReservaEnd, ReservaRepl)
        \* re.sub(r'([A-Z]{2})\s*(\d{3,4})', r'\1 \2', text): two capitals
        \* and 3 or 4 digits are set apart by one space, wherever they occur
        Digits(s, i) == SkipWs(s, i + 2)
        FlightEnd(s, i) ==
            IF /\ i + 1 <= Len(s)
               /\ s[i] \in UpperSet /\ s[i + 1] \in UpperSet
               /\ Digits(s, i) + 2 <= Len(s)
               /\ \A k \in Digits(s, i)..Digits(s, i) + 2 : s[k] \in DigitChars
            THEN IF /\ Digits(s, i) + 3 <= Len(s)
                    /\ s[Digits(s, i) + 3] \in DigitChars
                 THEN Digits(s, i) + 3 ELSE Digits(s, i) + 2
            ELSE 0
        FlightRepl(s, i) ==
            <<s[i], s[i + 1], " ">> \o SubSeq(s, Digits(s, i), FlightEnd(s, i))
        flight == re_sub(reserva, FlightEnd, FlightRepl)
        \* re.sub(r'(\d{2})([A-Z]{3})', r'\1\2', text) puts back what it found
    IN  Strip(flight)

\* what reader.readtext returns for the part of the image with the
\* reservation code: the label, the dash and a code of 6 capitals and
\* digits, in one paragraph or in two, with the spacing the recognizer gave
OcrResults ==
    LET label == <<"R", "e", "s", "e", "r", "v", "a">> IN
    UNION { { <<label \o <<" ", "-", " ">> \o code>>,
              <<label \o <<"-">> \o code>>,
              <<label \o <<" ", " ", "-", "\n">> \o code \o <<" ">> >>,
              <<label \o <<" ", "-">>, code>> } :
            code \in [1..6 -> {"A", "7"}] }

\* SabreOCR.extract_text, given what initialize and reader.readtext gave:
\* "" without a reader, otherwise the joined results cleaned
extract_text(ready, results) ==
    IF ~ready THEN << >> ELSE clean_sabre_text(JoinWords(results))

\* the recognized texts a caller sets on a screen: with or without the label
\* 'Nomes', without itinerary lines, with one and with two different ones,
\* on both sides of the detection threshold
ScreenTexts ==
    { [blank |-> FALSE, indicators |-> n, pnr |-> None, name |-> name,
       flights |-> flights, tkt |-> None, auth |-> None] :
        n \in IndicatorCounts,
        name \in {None} \cup {name_match(after) : after \in AfterLabels},
        flights \in {<< >>,
                     <<Itinerary(Sample.CARRIER_LA, Sample.CLASSE_Y,
                                 Sample.DATE_13MAR, Sample.STATUS_HK)>>,
                     <<Itinerary(Sample.CARRIER_LA, Sample.CLASSE_Y,
                                 Sample.DATE_13MAR, Sample.STATUS_HK),
                       Itinerary(Sample.CARRIER_XX, Sample.CLASSE_F,
                                 Sample.DATE_13FOO, Sample.STATUS_XX)>>} }

\* a caller has built a SabreScreen, has or has not loaded an image into it,
\* and has set extracted_text (args holds the characters of the text when
\* the text is given by its characters), or is about to set it to what
\* extract_text returns for the results in args
InitScreen ==
    /\ initialized = TRUE
    /\ latam_form = [is_form_loaded |-> FALSE]
    /\ is_processing = FALSE
    /\ status_indicator = NewStatusIndicator
    /\ ui_raised = FALSE
    /\ \E image \in BOOLEAN :
       \E inp \in { <<text, << >>, "screen_detect">> : text \in ScreenTexts }
                  \cup { <<RecognizedText(chars, n), <<chars>>, "screen_detect">> :
                           chars \in ReservaTexts, n \in IndicatorCounts }
                  \cup { <<BlankText, <<results>>, "extract_text">> :
                           results \in OcrResults } :
          /\ sabre_screen = [NewSabreScreen EXCEPT !.raw_image = image,
                                                    !.extracted_text = inp[1]]
          /\ run = [t \in Threads |->
                      IF t = 1 THEN [NewRun(1) EXCEPT !.pc = inp[3],
                                                      !.args = inp[2]]
                      ELSE NewRun(0)]
    /\ calls = [t \in Threads |-> NewCalls]
    /\ in_flight = {}

\* sabre_screen.extracted_text = sabre_ocr.extract_text(image): the reader
\* is or is not available; of the 7 other indicators 4 or 5 are found in the
\* rest of the text
ExtractText(t) ==
    /\ run[t].pc = "extract_text"
    /\ \E ready \in BOOLEAN, n \in IndicatorCounts :
          LET text == extract_text(ready, run[t].args[1]) IN
          /\ sabre_screen' = [sabre_screen EXCEPT
                                 !.extracted_text = RecognizedText(text, n)]
          /\ run' = [run EXCEPT ![t].pc = "screen_detect",
                                ![t].op = "extract_text",
                                ![t].ret = Some(text)]
    /\ UNCHANGED <<initialized, latam_form, is_processing, status_indicator,
                   ui_raised, calls, in_flight>>

\* sabre_screen.is_valid_screen = sabre_screen.detect_sabre_pattern()
ScreenDetect(t) ==
    /\ run[t].pc = "screen_detect"
    /\ sabre_screen' = [sabre_screen EXCEPT
                           !.is_valid_screen = detect_sabre_pattern(sabre_screen)]
    /\ calls' = [calls EXCEPT
                    ![t].detected = Some(detect_sabre_pattern(sabre_screen))]
    /\ run' = [run EXCEPT ![t].pc = "screen_parse"]
    /\ UNCHANGED <<initialized, latam_form, is_processing, status_indicator,
                   ui_raised, in_flight>>

\* extracted_fields = sabre_screen.parse_fields()
ScreenParse(t) ==
    /\ run[t].pc = "screen_parse"
    /\ sabre_screen' = parse_fields(sabre_screen).screen
    /\ run' = [run EXCEPT ![t].pc = "screen_parsed",
                          ![t].extracted_fields = parse_fields(sabre_screen).fields]
    /\ calls' = [calls EXCEPT ![t].parse = @ + 1]
    /\ UNCHANGED <<initialized, latam_form, is_processing, status_indicator,
                   ui_raised, in_flight>>

NextScreen == ExtractText(1) \/ ScreenDetect(1) \/ ScreenParse(1)

SpecScreen == InitScreen /\ [][NextScreen]_vars

\* C12 (as claimed): detect_sabre_pattern returns true exactly when at least
\* 5 of the 8 indicators match the recognized text, whether or not the
\* screen has an image loaded.
C12_DetectionByTextOnly ==
    \A t \in Threads :
        calls[t].detected # None =>
            calls[t].detected = Some(sabre_screen.extracted_text.indicators >= 5)

\* C13 (as claimed): every field in the dict parse_fields returned has a
\* non-empty value.
C13_ParsedValuesNonEmpty ==
    \A t \in Threads :
        run[t].pc = "screen_parsed" =>
            \A k \in DOMAIN run[t].extracted_fields :
                run[t].extracted_fields[k].value # << >>

(* ---------------------- RulesEngine used on its own -------------------- *)
\* the codes handed to validate_pnr_format, over an uppercase letter, a
\* digit, a lowercase letter and a symbol
PnrInputs ==
    UNION { [1..n -> {"A", "7", "a", "-"}] : n \in 0..MaxPnrLen }

\* the 'classe' and 'auth_code' values handed to validate_estouro_classe;
\* the empty string is what .get(key, '') gives for a missing key
ClasseInputs == { <<"Q">>, <<"S">>, <<"Y">>, <<"F">>, <<"y">>, <<"f">>, << >> }

AuthInputs ==
    valid_codes \cup { <<"p","i","c","_","s","2","3">>, Sample.AUTH_BAD,
                       <<"P","I","C","_","S","2","6">>, << >> }

\* the strings handed to validate_date_format
DateInputs ==
    { <<d1, d2>> \o m :
        d1 \in {"1", "x"}, d2 \in {"3", "9"},
        m \in DOMAIN month_map
              \cup { <<"m","a","r">>, <<"D","e","z">>, <<"F","O","O">>,
                     <<"F","E","B">> } }
    \cup { << >>, <<"1","3">>, <<"1","3","M","A">>,
           <<"1","3","M","A","R","C">>, <<"M","A","R","1","3">> }

\* the names of the calls of validate_name_correction
TestNames ==
    [GONSALES |-> <<"G","O","N","S","A","L","E","S">>,
     GONZALEZ |-> <<"G","O","N","Z","A","L","E","Z">>,
     LUISA_GALVEZ |-> <<"L","U","I","S","A","/","G","A","L","V","E","Z">>,
     GALVEZ_LUISA |-> <<"G","A","L","V","E","Z","/","L","U","I","S","A">>,
     SILVA_ALBERTO |-> <<"S","I","L","V","A","/","A","L","B","E","R","T","O">>,
     SILVA_LUIS_ALBERTO |-> <<"S","I","L","V","A","/","L","U","I","S"," ","A","L","B","E","R","T","O">>,
     MARTINES |-> <<"M","A","R","T","I","N","E","S">>,
     MARTINEZ |-> <<"M","A","R","T","I","N","E","Z">>,
     ALBERTO |-> <<"A","L","B","E","R","T","O">>,
     ALBERNO |-> <<"A","L","B","E","R","N","O">>,
     MR_SILVA |-> <<"M","R"," ","S","I","L","V","A">>,
     SILVA_JR |-> <<"S","I","L","V","A"," ","J","R">>,
     ANA_ANA_ANA_LUZ |-> <<"A","N","A"," ","A","N","A"," ","A","N","A"," ","L","U","Z">>,
     ANA_LUZ |-> <<"A","N","A"," ","L","U","Z">>,
     PEREZ |-> <<"P","E","R","E","Z">>,
     OLIVEIRA |-> <<"O","L","I","V","E","I","R","A">>,
     ADAMS |-> <<"A","D","A","M","S">>,
     AMRANI |-> <<"A","M","R","A","N","I">>,
     MSTR_SILVA |-> <<"M","S","T","R"," ","S","I","L","V","A">>,
     SILVA_SR |-> <<"S","I","L","V","A"," ","S","R">>,
     SILVA_NETO |-> <<"s","i","l","v","a"," "," ","n","e","t","o">>,
     ISRAEL |-> <<"I","S","R","A","E","L">>]

\* the pairs of the tests, a pair that differs by a title, by a suffix, by
\* repeated words, and an unrelated pair
ReferencePairs ==
    { <<TestNames.GONSALES, TestNames.GONZALEZ>>, <<TestNames.LUISA_GALVEZ, TestNames.GALVEZ_LUISA>>,
      <<TestNames.SILVA_ALBERTO, TestNames.SILVA_LUIS_ALBERTO>>,
      <<TestNames.MARTINES, TestNames.MARTINEZ>>, <<TestNames.ALBERTO, TestNames.ALBERNO>>,
      <<TestNames.MR_SILVA, Sample.NAME_SILVA>>, <<TestNames.SILVA_JR, Sample.NAME_SILVA>>,
      <<TestNames.ANA_ANA_ANA_LUZ, TestNames.ANA_LUZ>>, <<TestNames.PEREZ, TestNames.OLIVEIRA>>,
      <<TestNames.ADAMS, TestNames.AMRANI>>, <<TestNames.MSTR_SILVA, Sample.NAME_SILVA>>,
      <<TestNames.SILVA_SR, Sample.NAME_SILVA>>, <<Sample.NAME_SILVA, TestNames.SILVA_SR>>,
      <<TestNames.SILVA_SR, TestNames.SILVA_SR>>, <<TestNames.SILVA_NETO, Sample.NAME_SILVA>>,
      <<TestNames.ISRAEL, TestNames.PEREZ>>, <<TestNames.PEREZ, TestNames.ISRAEL>> }

\* short names over two letters and the space
ShortNames == UNION { [1..n -> {"A", "B", " "}] : n \in 0..MaxNameLen }

NamePairs == ReferencePairs \cup (ShortNames \X ShortNames)

\* a caller has invoked one check of a RulesEngine on thread 1
RulesCalls ==
    { <<"validate_pnr_format", <<pnr>> >> : pnr \in PnrInputs }
    \cup { <<"validate_estouro_classe", <<classe, auth>> >> :
             classe \in ClasseInputs, auth \in AuthInputs }
    \cup { <<"validate_date_format", <<d>> >> : d \in DateInputs }
    \cup { <<"validate_name_correction", p>> : p \in NamePairs }
    \cup { <<"_normalize_name", <<p[i]>> >> : p \in NamePairs, i \in 1..2 }
    \cup { <<"_is_agname_correction", p>> : p \in ReferencePairs }

InitRules ==
    /\ initialized = TRUE
    /\ latam_form = [is_form_loaded |-> FALSE]
    /\ sabre_screen = NewSabreScreen
    /\ is_processing = FALSE
    /\ status_indicator = NewStatusIndicator
    /\ ui_raised = FALSE
    /\ run \in { [t \in Threads |->
                    IF t = 1 THEN [NewRun(1) EXCEPT !.pc = "rules_called",
                                                    !.op = c[1], !.args = c[2],
                                                    !.side = side]
                    ELSE NewRun(0)] : c \in RulesCalls, side \in Sides }
    /\ calls = [t \in Threads |-> NewCalls]
    /\ in_flight = {}

\* the check called on thread t returns
RulesReturn(t, op, ret) ==
    /\ run[t].pc = "rules_called"
    /\ run[t].op = op
    /\ run' = [run EXCEPT ![t].pc = "rules_returned", ![t].ret = Some(ret)]
    /\ UNCHANGED <<initialized, latam_form, sabre_screen, is_processing,
                   status_indicator, ui_raised, calls, in_flight>>

ValidatePnrFormat(t) ==
    RulesReturn(t, "validate_pnr_format", validate_pnr_format(run[t].args[1]))

ValidateEstouroClasse(t) ==
    RulesReturn(t, "validate_estouro_classe",
                validate_estouro_classe(run[t].args[1], run[t].args[2]))

ValidateDateFormat(t) ==
    RulesReturn(t, "validate_date_format", validate_date_format(run[t].args[1]))

ValidateNameCorrection(t) ==
    RulesReturn(t, "validate_name_correction",
                validate_name_correction(run[t].side, run[t].args[1],
                                         run[t].args[2]))

NormalizeName(t) ==
    RulesReturn(t, "_normalize_name", normalize_name(run[t].args[1]))

IsAgnameCorrection(t) ==
    RulesReturn(t, "_is_agname_correction",
                is_agname_correction(run[t].args[1], run[t].args[2]))

NextRules ==
    \/ NormalizeName(1)
    \/ IsAgnameCorrection(1)
    \/ ValidatePnrFormat(1)
    \/ ValidateEstouroClasse(1)
    \/ ValidateDateFormat(1)
    \/ ValidateNameCorrection(1)

SpecRules == InitRules /\ [][NextRules]_vars

\* the call of op on thread t has returned
RulesReturned(t, op) == run[t].pc = "rules_returned" /\ run[t].op = op

\* C14: validate_pnr_format passes exactly for the strings of 6 characters
\* all in A-Z and 0-9; every other string (another length, the empty
\* string, a lowercase letter or a symbol among 6 characters) fails with an
\* error message.
C14_PnrFormat ==
    \A t \in Threads :
        RulesReturned(t, "validate_pnr_format") =>
            LET pnr == run[t].args[1]
                ret == run[t].ret[1]
            IN  /\ ret.is_valid <=>
                       (Len(pnr) = 6 /\ \A i \in 1..6 :
                                           pnr[i] \in UpperSet \cup DigitChars)
                /\ ~ret.is_valid => ret.error_message # None

\* a code of 6 letters and digits with a lowercase letter was rejected
C14_Witness ==
    /\ RulesReturned(1, "validate_pnr_format")
    /\ run[1].args[1] = <<"A", "7", "a", "A", "7", "A">>
    /\ ~run[1].ret[1].is_valid

\* the two failed outcomes of validate_estouro_classe
ClassIneligible(ret) ==
    /\ ~ret.is_valid
    /\ ret.error_message = Some(<<"Classe", "<v>", "nao", "e", "elegivel",
                                  "para", "estouro", "de", "classe">>)
    /\ ret.suggested_action = Some("Verificar classe original da reserva")

AuthIneligible(ret) ==
    /\ ~ret.is_valid
    /\ ret.error_message = Some(<<"Codigo", "de", "autorizacao", "<v>", "nao",
                                  "permite", "estouro", "de", "classe">>)
    /\ ret.suggested_action = Some("Verificar autorizacao PIC no Sabre")

\* C15 (as claimed): validate_estouro_classe passes exactly when the class
\* is one of Q, S, Y and the authorization code one of PIC_S23, PIC_S24,
\* PIC_S25; an ineligible class gives the class-ineligible outcome, an
\* eligible class with another code the authorization-ineligible outcome.
C15_EstouroExactLists ==
    \A t \in Threads :
        RulesReturned(t, "validate_estouro_classe") =>
            LET classe == run[t].args[1]
                auth == run[t].args[2]
                ret == run[t].ret[1]
            IN  /\ ret.is_valid <=>
                       (classe \in eligible_classes /\ auth \in valid_codes)
                /\ classe \notin eligible_classes => ClassIneligible(ret)
                /\ (classe \in eligible_classes /\ auth \notin valid_codes)
                       => AuthIneligible(ret)

\* C15 (amended): validate_estouro_classe passes exactly when the class in
\* uppercase is one of Q, S, Y and the authorization code in uppercase one
\* of PIC_S23, PIC_S24, PIC_S25; when the uppercased class is not in the
\* list the outcome is the class-ineligible one, whatever the code; when it
\* is and the uppercased code is not, the outcome is the distinct
\* authorization-ineligible one; every failed outcome has a hint.
C15_EstouroUppercased ==
    \A t \in Threads :
        RulesReturned(t, "validate_estouro_classe") =>
            LET classe == Upper(run[t].args[1])
                auth == Upper(run[t].args[2])
                ret == run[t].ret[1]
            IN  /\ ret.is_valid <=>
                       (classe \in eligible_classes /\ auth \in valid_codes)
                /\ classe \notin eligible_classes => ClassIneligible(ret)
                /\ (classe \in eligible_classes /\ auth \notin valid_codes)
                       => AuthIneligible(ret)
                /\ ~ret.is_valid =>
                       /\ ret.suggested_action # None
                       /\ ret.suggested_action[1] # ""

\* a lowercase eligible class with a lowercase valid code passed
C15_Witness ==
    /\ RulesReturned(1, "validate_estouro_classe")
    /\ run[1].args = << <<"y">>, <<"p","i","c","_","s","2","3">> >>
    /\ run[1].ret[1].is_valid

\* C19: validate_date_format returns (true, "dd/mm/<current year>") for
\* every string of 5 characters whose first two are digits and whose last
\* three, in uppercase, are a key of month_map, mm being the value of that
\* key; for every other string it returns (false, message).
C19_DateFormat ==
    \A t \in Threads :
        RulesReturned(t, "validate_date_format") =>
            LET d == run[t].args[1]
                ret == run[t].ret[1]
            IN  IF /\ Len(d) = 5
                   /\ d[1] \in DigitChars /\ d[2] \in DigitChars
                   /\ Upper(<<d[3], d[4], d[5]>>) \in DOMAIN month_map
                THEN /\ ret.is_valid
                     /\ ret.text = <<d[1], d[2], "/">>
                                   \o month_map[Upper(<<d[3], d[4], d[5]>>)]
                                   \o <<"/">> \o CurrentYear
                     /\ d = Sample.DATE_13MAR =>
                            ret.text = <<"1","3","/","0","3","/">> \o CurrentYear
                ELSE ~ret.is_valid /\ ret.text # << >>

\* "13mar" was converted
C19_Witness ==
    /\ RulesReturned(1, "validate_date_format")
    /\ run[1].args[1] = <<"1","3","m","a","r">>
    /\ run[1].ret[1].is_valid

\* the normalized names of the validate_name_correction call on thread t
OldClean(t) == normalize_name(run[t].args[1])
NewClean(t) == normalize_name(run[t].args[2])

\* a step of the classifier accepts the normalized pair of the call
Accepted(t) ==
    \/ OldClean(t) = NewClean(t)
    \/ is_orthographic_correction(run[t].side, OldClean(t), NewClean(t))
    \/ is_inverted_names(run[t].side, OldClean(t), NewClean(t))
    \/ is_addition_correction(run[t].side, OldClean(t), NewClean(t))
    \/ is_duplication_correction(OldClean(t), NewClean(t))
    \/ is_agname_correction(OldClean(t), NewClean(t))

\* C16: validate_name_correction approves exactly when the normalized names
\* are equal or one of the five heuristics accepts the normalized pair; a
\* name paired with itself is approved; a pair that no step accepts is
\* rejected with the documentation-required message and a hint.
C16_ApprovedIffSomeStepAccepts ==
    \A t \in Threads :
        RulesReturned(t, "validate_name_correction") =>
            LET ret == run[t].ret[1]
            IN  /\ ret.is_valid <=> Accepted(t)
                /\ run[t].args[1] = run[t].args[2] => ret.is_valid
                /\ ~Accepted(t) =>
                       /\ ret.error_message
                              = Some(<<"Correcao", "de", "nome", "requer",
                                       "documentacao", "comprobatoria">>)
                       /\ ret.suggested_action # None
                       /\ ret.suggested_action[1] # ""

\* a pair that only the duplicate-removal step accepts was approved
C16_Witness ==
    /\ RulesReturned(1, "validate_name_correction")
    /\ run[1].side = "HEAD"
    /\ run[1].args = << <<"A", " ", "A">>, <<"A">> >>
    /\ ~is_orthographic_correction("HEAD", OldClean(1), NewClean(1))
    /\ is_duplication_correction(OldClean(1), NewClean(1))
    /\ run[1].ret[1].is_valid

\* C17 (as claimed): the three reference pairs are approved, and the first
\* step that accepts is orthographic for (GONSALES, GONZALEZ), inversion for
\* (LUISA/GALVEZ, GALVEZ/LUISA) and addition for (SILVA/ALBERTO,
\* SILVA/LUIS ALBERTO).
C17_ReferencePairsFirstStep ==
    \A t \in Threads :
        RulesReturned(t, "validate_name_correction") =>
            LET step == matched_step(run[t].side, OldClean(t), NewClean(t))
                stated ==
                    CASE run[t].args = <<TestNames.GONSALES, TestNames.GONZALEZ>>
                             -> "orthographic"
                      [] run[t].args = <<TestNames.LUISA_GALVEZ, TestNames.GALVEZ_LUISA>>
                             -> "inversion"
                      [] run[t].args = <<TestNames.SILVA_ALBERTO,
                                         TestNames.SILVA_LUIS_ALBERTO>>
                             -> "addition"
                      [] OTHER -> step
            IN  step = stated /\ (stated # "none" => run[t].ret[1].is_valid)

\* C18 (as claimed): a pair of names of equal length that differ in exactly
\* one position, and that no step other than the orthographic one accepts,
\* is rejected as requiring documentation.
C18_OneLetterChangeRejected ==
    \A t \in Threads :
        RulesReturned(t, "validate_name_correction") =>
            LET old == run[t].args[1]
                new == run[t].args[2]
            IN  ( /\ Len(old) = Len(new)
                  /\ Cardinality({i \in 1..Len(old) : old[i] # new[i]}) = 1
                  /\ OldClean(t) # NewClean(t)
                  /\ ~is_inverted_names(run[t].side, OldClean(t), NewClean(t))
                  /\ ~is_addition_correction(run[t].side, OldClean(t), NewClean(t))
                  /\ ~is_duplication_correction(OldClean(t), NewClean(t))
                  /\ ~is_agname_correction(OldClean(t), NewClean(t)) )
                => run[t].ret[1] = DocumentationRequired

(* -------------------- StatusIndicator used on its own ------------------ *)
StatusLevel == {"INFO", "WARNING", "ERROR", "SUCCESS", "PROCESSING"}

\* the progress values callers pass: below, inside and above 0..100
ProgressInputs == {-5, 0, 42, 100, 150}

MessageInputs == {"Teste", "Formulario preenchido"}

\* a caller has built a StatusIndicator
InitStatus ==
    /\ initialized = FALSE
    /\ latam_form = [is_form_loaded |-> FALSE]
    /\ sabre_screen = NewSabreScreen
    /\ is_processing = FALSE
    /\ status_indicator = NewStatusIndicator
    /\ ui_raised = FALSE
    /\ run = [t \in Threads |-> NewRun(0)]
    /\ calls = [t \in Threads |-> NewCalls]
    /\ in_flight = {}

\* the caller on thread t has called method op, which left the indicator si
StatusCall(t, op, si) ==
    /\ status_indicator' = si
    /\ run' = [run EXCEPT ![t].op = op]
    /\ UNCHANGED <<initialized, latam_form, sabre_screen, is_processing,
                   ui_raised, calls, in_flight>>

StatusStart(t) ==
    \E message \in MessageInputs \cup {"Processando..."} :
        StatusCall(t, "start_processing",
                   si_start_processing(status_indicator, message))

\* final_message = message or the default of the branch
StatusStop(t) ==
    \E success \in BOOLEAN, message \in {None} \cup {Some(m) : m \in MessageInputs} :
        StatusCall(t, "stop_processing",
                   si_stop_processing(status_indicator, success,
                       IF message # None THEN message[1]
                       ELSE IF success
                       THEN "Processamento concluido com sucesso"
                       ELSE "Processamento falhou"))

StatusSet(t) ==
    \E status \in StatusLevel, message \in MessageInputs,
       progress \in {None} \cup {Some(n) : n \in ProgressInputs} :
        StatusCall(t, "set_status",
                   si_set_status(status_indicator, status, message, progress))

StatusUpdateProgress(t) ==
    \E progress \in ProgressInputs,
       message \in {None} \cup {Some(m) : m \in MessageInputs} :
        StatusCall(t, "update_progress",
                   si_update_progress(status_indicator, progress, message))

StatusNotify(t) ==
    \E message \in MessageInputs, level \in StatusLevel :
        StatusCall(t, "show_notification",
                   si_show_notification(status_indicator, message, level))

StatusReset(t) == StatusCall(t, "reset", si_reset(status_indicator))

NextStatus ==
    \/ StatusStart(1) \/ StatusStop(1) \/ StatusSet(1)
    \/ StatusUpdateProgress(1) \/ StatusNotify(1) \/ StatusReset(1)

SpecStatus == InitStatus /\ [][NextStatus]_vars

\* C20: a new StatusIndicator is not processing and has progress 0; the
\* stored progress is always within 0..100; start_processing leaves the
\* indicator processing with status PROCESSING, stop_processing leaves it
\* not processing with status SUCCESS or ERROR, reset leaves it not
\* processing, and set_status, update_progress and show_notification leave
\* is_processing as it was (so it is true exactly when the most recent of
\* start_processing, stop_processing and reset was start_processing).
C20_StatusIndicator ==
    /\ ~status_indicator.is_processing /\ status_indicator.progress = 0
    /\ [](status_indicator.progress \in 0..100)
    /\ [][ /\ run'[1].op = "start_processing" =>
                  /\ status_indicator'.is_processing
                  /\ status_indicator'.current_status = "PROCESSING"
           /\ run'[1].op = "stop_processing" =>
                  /\ ~status_indicator'.is_processing
                  /\ status_indicator'.current_status \in {"SUCCESS", "ERROR"}
           /\ run'[1].op = "reset" => ~status_indicator'.is_processing
           /\ run'[1].op \in {"set_status", "update_progress",
                              "show_notification"} =>
                  status_indicator'.is_processing
                      = status_indicator.is_processing ]_vars

\* a progress above the range was reported while processing, and stored as 100
C20_Witness ==
    /\ run[1].op = "update_progress"
    /\ status_indicator.is_processing
    /\ status_indicator.current_status = "PROCESSING"
    /\ status_indicator.progress = 100

(* ------------------------ the name clean-up ---------------------------- *)
\* the name in capitals without the words that are one of the titles, the
\* remaining words joined by single spaces
WithoutTitleWords(name) ==
    JoinWords(SelectSeq(SplitWords(Upper(name)),
                        LAMBDA w : w \notin Parts(titles)))

\* C21: _normalize_name gives the name in capitals with only the whole
\* words MS, MR, MSTR, JR, NETO, FILHO removed and the whitespace
\* collapsed: a word MSTR is removed entirely and a longer word containing
\* one of these letter sequences (ADAMS, AMRANI) is left as it is.
C21_OnlyWholeTitleWordsRemoved ==
    \A t \in Threads :
        RulesReturned(t, "_normalize_name") =>
            run[t].ret[1] = WithoutTitleWords(run[t].args[1])

\* one of the words of the name is one of the suffixes
HasSuffixWord(name) ==
    \E w \in Parts(SplitWords(Upper(name))) : w \in agnames

\* C22: _is_agname_correction accepts exactly when one name has one of JR,
\* NETO, FILHO, SR as a whole word and the other name has none; the same
\* letters inside a longer word (ISRAEL) do not count.
C22_SuffixWordToggle ==
    \A t \in Threads :
        RulesReturned(t, "_is_agname_correction") =>
            ( run[t].ret[1] <=>
                  (HasSuffixWord(run[t].args[1]) # HasSuffixWord(run[t].args[2])) )

(* ------------------- the reservation code of a text -------------------- *)
\* the token that follows 'Reserva - ' in the text held by args
TokenAfterLabel(t) == SubSeq(run[t].args[1], 11, Len(run[t].args[1]))

\* C23: on a detected screen parse_fields extracts the reservation code
\* exactly when the label is followed by a token of exactly 6 letters and
\* digits, in any letter case, and the extracted value is that token in
\* capitals; a longer token gives no code.
C23_CodeIsTheSixCharacterToken ==
    \A t \in Threads :
        ( /\ run[t].pc = "screen_parsed"
          /\ sabre_screen.is_valid_screen
          /\ run[t].args # << >>
          /\ run[t].op = "" ) =>
            LET token == TokenAfterLabel(t)
                fields == run[t].extracted_fields
            IN  /\ "pnr" \in DOMAIN fields <=> Len(token) = 6
                /\ "pnr" \in DOMAIN fields => fields["pnr"].value = Upper(token)

(* --------------------- the itinerary of a text ------------------------- *)
ItineraryKeys == {"carrier", "flight_num", "classe", "trecho", "data_voo", "status"}

\* C24: the six itinerary fields of the dict parse_fields returns are all
\* present or all absent, and when present their values are those of the
\* first itinerary line found in the text, also when later lines match.
C24_ItineraryFromFirstLine ==
    \A t \in Threads :
        run[t].pc = "screen_parsed" =>
            LET fields == run[t].extracted_fields
                lines == sabre_screen.extracted_text.flights
            IN  \/ ItineraryKeys \cap DOMAIN fields = {}
                \/ /\ ItineraryKeys \subseteq DOMAIN fields
                   /\ lines # << >>
                   /\ \A k \in ItineraryKeys : fields[k].value = lines[1][k]

\* a text with two different itinerary lines was parsed on a detected
\* screen and the fields are those of the first line
C24_Witness ==
    /\ run[1].pc = "screen_parsed"
    /\ Len(sabre_screen.extracted_text.flights) = 2
    /\ sabre_screen.extracted_text.flights[2].carrier = Sample.CARRIER_XX
    /\ ItineraryKeys \subseteq DOMAIN run[1].extracted_fields
    /\ run[1].extracted_fields["carrier"].value = Sample.CARRIER_LA

(* ----------------------- the flight date of a run ---------------------- *)
\* the run on thread t has mapped a flight date that the date transform
\* does not accept
DateFails(t) ==
    /\ "data_voo" \in DOMAIN run[t].field_mapping
    /\ ~validate_date_format(run[t].field_mapping["data_voo"]).is_valid

\* C25: when the flight date of a run fails the date transform, the fill
\* outcome of the date field is a failure, the token is not typed into the
\* form as it is, and the run does not end with success = true.
C25_BadDateFailsTheField ==
    \A t \in Threads :
        DateFails(t) =>
            /\ \A i \in 1..Len(run[t].fill_results) :
                   calls[t].fills[i] = "data_voo" => ~run[t].fill_results[i].is_valid
            /\ \A answer \in AnswersFor("data_voo") :
                   fill_field("data_voo", run[t].field_mapping["data_voo"],
                              answer).typed
                       # Some(run[t].field_mapping["data_voo"])
            /\ (Returned(t) /\ run[t].result # None) => ~run[t].result[1].success

(* ------------------ the reservation code of a run ---------------------- *)
\* C26: a run calls _fill_field or submit_form only when a reservation code
\* was extracted and passed validate_pnr_format; a run without a
\* reservation code (or without any field) reaches neither the fill phase
\* nor the submission.
C26_NoCodeNoSubmit ==
    \A t \in Threads :
        ( \/ Filling(t) \/ Submitting(t)
          \/ calls[t].fills # << >> \/ calls[t].submits > 0 ) =>
            /\ "pnr" \in DOMAIN run[t].extracted_fields
            /\ validate_pnr_format(run[t].extracted_fields["pnr"].value).is_valid

(* -------------------- runs the remote form accepts --------------------- *)
\* C27: a run that passed validation with the form loaded, and whose fill
\* and submit interactions the remote form all accepted, has every fill
\* outcome valid and success = true, for every extracted field set,
\* including one with a flight number.
C27_AcceptedRunCompletes ==
    \A t \in Threads :
        ( /\ Returned(t)
          /\ calls[t].submits > 0
          /\ run[t].remote_failures = 0
          /\ run[t].submission_result # None
          /\ run[t].submission_result[1].is_valid ) =>
            /\ Failed(run[t].fill_results) = {}
            /\ run[t].result # None /\ run[t].result[1].success

(* --------------------------- the stop button --------------------------- *)
\* C28: stop_processing always completes normally, and right after it both
\* the application's is_processing and the status indicator's is_processing
\* are false, from every state in which the stop can be requested.
C28_StopCompletes ==
    [][StopProcessing =>
          /\ ~ui_raised'
          /\ ~is_processing'
          /\ ~status_indicator'.is_processing]_vars

(* ------------------------ every run finishes --------------------------- *)
\* C29: every run start_processing launched eventually finishes and, however
\* it ended, clears is_processing as its last step, after which a start
\* request launches a run again; while is_processing is true a start
\* request changes nothing and launches no thread.
C29_EveryRunFinishes ==
    /\ \A t \in Threads :
          (run[t].pc \notin {"idle", "finished"}) ~> (run[t].pc = "finished")
    /\ [][\A t \in Threads :
             (run[t].pc # "finished" /\ run'[t].pc = "finished")
                 => ~is_processing']_vars
    /\ [][(StartProcessing /\ ~is_processing) =>
             \E t \in Threads : run[t].pc = "idle" /\ run'[t].pc = "capture"]_vars
    /\ [][(StartProcessing /\ is_processing) => UNCHANGED vars]_vars

\* a first run has finished and cleared the flag, and a start request after
\* it has launched a second run
C29_Witness ==
    /\ run[1].pc = "finished"
    /\ run[2].pc = "capture"
    /\ is_processing

(* ------------------- the clean-up of the recognized text --------------- *)
\* the text extract_text returned on thread t, when it returned one
Cleaned(t) == run[t].op = "extract_text" /\ run[t].ret # None /\ run[t].ret[1] # << >>

\* the reservation code of the results handed to extract_text
CodeRead(t) ==
    LET last == run[t].args[1][Len(run[t].args[1])]
    IN  SubSeq(Strip(last), Len(Strip(last)) - 5, Len(Strip(last)))

\* C30: _clean_sabre_text keeps the reservation code: for a text with the
\* label followed by a code C of 6 capitals and digits (e.g.
\* 'Reserva - ABC123') the cleaned text has C whole right after the label,
\* so that detection counts the reservation indicator and parse_fields
\* extracts exactly C.
C30_CleanUpKeepsTheCode ==
    \A t \in Threads :
        Cleaned(t) =>
            /\ Contains(run[t].ret[1],
                        <<"R", "e", "s", "e", "r", "v", "a", " ", "-", " ">>
                            \o CodeRead(t))
            /\ reserva_search(run[t].ret[1], TRUE) # None
            /\ (run[t].pc = "screen_parsed" /\ sabre_screen.is_valid_screen) =>
                   /\ "pnr" \in DOMAIN run[t].extracted_fields
                   /\ run[t].extracted_fields["pnr"].value = CodeRead(t)

====
